---- MODULE Spec2Model ----
(***************************************************************************)
(* A model of the Rust helper shim of the kernel tree: the C trampolines   *)
(* rust_helper_X of rust/helpers/*.c, each of which forwards one call to   *)
(* an inline function or macro X of the kernel.                            *)
(*                                                                         *)
(* A wrapper is modelled by what its body does: the sequence of primitive  *)
(* operations it performs, each with the typed argument expressions it     *)
(* passes.  The primitives themselves live in the kernel headers, outside  *)
(* the helper sources; their behaviour is modelled separately (the         *)
(* operators named after them) and only as far as the properties need.     *)
(***************************************************************************)
EXTENDS Integers, Sequences, FiniteSets, TLC

VARIABLES
    cfg,        \* the build configuration: CONFIG_64BIT, CONFIG_NUMA, CONFIG_DEBUG_SPINLOCK
    pos,        \* build: index of the next item of the helper sources to compile
    defined,    \* build: the wrappers compiled so far
    exported,   \* build: the wrappers registered with EXPORT_SYMBOL_GPL so far
    wlog,       \* equivalence: primitive invocations made through the wrappers
    dlog,       \* equivalence: primitive invocations made by direct calls
    wret,       \* equivalence: value returned by the last wrapper call
    dret,       \* equivalence: value returned by the last direct call
    sent,       \* equivalence: the last call: wrapper, typed arguments passed, what arrived
    e_phase,    \* error pointers: "idle", "encoded", "chosen", "classified", "decoded"
    e_code,     \* error pointers: the error code given to rust_helper_ERR_PTR (0: none)
    e_ptr,      \* error pointers: the pointer under test
    e_is,       \* error pointers: result of rust_helper_IS_ERR
    e_dec,      \* error pointers: result of rust_helper_PTR_ERR
    req_ref,    \* reference counts: req->ref of the shared request (atomic_t)
    refs,       \* reference counts: r->refs of the shared refcount_t
    rc_init,    \* reference counts: the initial value of both counters
    rc_thr,     \* reference counts: per thread, rounds done and references held
    rc_hist,    \* reference counts: per counter, calls made and what they returned
    rc_last,    \* reference counts: the last call: wrapper, counter before, result
    witem,      \* work item: the struct work_struct being initialised
    wk_pc,      \* work item: number of sub-steps rust_helper_init_work_with_key has done
    wk_args,    \* work item: the arguments of the call in progress
    wk_trace,   \* work item: the sub-steps performed, in order
    wq,         \* work item: the workqueue's pending list and the callbacks it ran
    spin,       \* spinlock: the spinlock_t
    lk_args,    \* spinlock: the arguments given to rust_helper___spin_lock_init
    lk_thr,     \* spinlock: per thread, "out", "in" (holds the lock)
    drvdata,    \* driver data: driver_data of each struct device
    dd_stored,  \* driver data: last value stored through the shim per device (or "none")
    dd_last     \* driver data: the last call: wrapper, device, value returned

bvars == <<pos, defined, exported>>
qvars == <<wlog, dlog, wret, dret, sent>>
evars == <<e_phase, e_code, e_ptr, e_is, e_dec>>
rvars == <<req_ref, refs, rc_init, rc_thr, rc_hist, rc_last>>
wvars == <<witem, wk_pc, wk_args, wk_trace, wq>>
lvars == <<spin, lk_args, lk_thr>>
dvars == <<drvdata, dd_stored, dd_last>>
vars == <<cfg, bvars, qvars, evars, rvars, wvars, lvars, dvars>>

(***************************************************************************)
(* Build configuration                                                     *)
(***************************************************************************)
Configs == [B64 : BOOLEAN, NUMA : BOOLEAN, DEBUG_SPINLOCK : BOOLEAN]

\* BITS_PER_LONG: the width of long, unsigned long, size_t and of pointers.
BitsPerLong(c) == IF c.B64 THEN 64 ELSE 32

(***************************************************************************)
(* Machine words.  A C scalar is its bit pattern, held in a 64-bit         *)
(* container of four 16-bit limbs, least significant first; the bits above *)
(* the width of its type are zero.                                         *)
(***************************************************************************)
Pow2(n) == IF n = 0 THEN 1 ELSE IF n = 1 THEN 2 ELSE IF n = 2 THEN 4
           ELSE IF n = 3 THEN 8 ELSE IF n = 4 THEN 16 ELSE IF n = 5 THEN 32
           ELSE IF n = 6 THEN 64 ELSE IF n = 7 THEN 128 ELSE IF n = 8 THEN 256
           ELSE IF n = 9 THEN 512 ELSE IF n = 10 THEN 1024 ELSE IF n = 11 THEN 2048
           ELSE IF n = 12 THEN 4096 ELSE IF n = 13 THEN 8192 ELSE IF n = 14 THEN 16384
           ELSE IF n = 15 THEN 32768 ELSE 65536

LimbBase == Pow2(16)
NLimbs == 64 \div 16

\* The low w bits of pattern p.
Trunc(p, w) ==
    [i \in 1..NLimbs |->
        IF 16 * i <= w THEN p[i]
        ELSE IF 16 * (i - 1) >= w THEN 0
        ELSE p[i] % Pow2(w - 16 * (i - 1))]

\* Bit w-1 of pattern p: the sign bit of a w-bit signed value.
TopBit(p, w) ==
    LET i == ((w - 1) \div 16) + 1
        b == (w - 1) % 16
    IN  (p[i] \div Pow2(b)) % 2 = 1

\* Pattern p of width w sign-extended to the container.
SignExt(p, w) ==
    IF ~TopBit(p, w) THEN p
    ELSE [i \in 1..NLimbs |->
            IF 16 * i <= w THEN p[i]
            ELSE IF 16 * (i - 1) >= w THEN LimbBase - 1
            ELSE p[i] + (LimbBase - Pow2(w - 16 * (i - 1)))]

\* The w-bit two's complement pattern of a small integer v.
FromInt(v, w) ==
    Trunc([i \in 1..NLimbs |->
              IF i = 1 THEN v % LimbBase
              ELSE IF i = 2 THEN (v \div LimbBase) % LimbBase
              ELSE IF v < 0 THEN LimbBase - 1 ELSE 0], w)

\* Unsigned comparison p >= q of two patterns, most significant limb first.
RECURSIVE UGeFrom(_, _, _)
UGeFrom(p, q, i) ==
    IF i = 0 THEN TRUE
    ELSE IF p[i] > q[i] THEN TRUE
    ELSE IF p[i] < q[i] THEN FALSE
    ELSE UGeFrom(p, q, i - 1)

UGe(p, q) == UGeFrom(p, q, NLimbs)

(***************************************************************************)
(* C types, as far as the helpers use them.  Every pointer type has the    *)
(* width of a long; a structure passed by value is an opaque container.    *)
(***************************************************************************)
SignedTypes == {"int", "long", "loff_t"}

Width(t, c) ==
    CASE t \in {"u8", "bool"} -> 8
      [] t \in {"u16", "unsigned short"} -> 16
      [] t \in {"u32", "int", "unsigned int", "gfp_t"} -> 32
      [] t \in {"u64", "uint64_t", "loff_t", "struct bio_vec", "refcount_t"} -> 64
      [] OTHER -> BitsPerLong(c)

\* The C conversion of pattern p of type from to type to.
Conv(p, from, to, c) ==
    Trunc(IF from \in SignedTypes THEN SignExt(p, Width(from, c)) ELSE p, Width(to, c))

\* Whether pattern p of type tp and pattern q of type tq denote the same number.
SameNumber(p, tp, q, tq, c) ==
    LET sp == tp \in SignedTypes
        sq == tq \in SignedTypes
        np == sp /\ TopBit(p, Width(tp, c))
        nq == sq /\ TopBit(q, Width(tq, c))
    IN  /\ np = nq
        /\ (IF np THEN SignExt(p, Width(tp, c)) ELSE p)
             = (IF nq THEN SignExt(q, Width(tq, c)) ELSE q)

(***************************************************************************)
(* What a wrapper body does: a sequence of operations.  An operation is a  *)
(* call of a kernel primitive with typed argument expressions, or a store  *)
(* to a member of an object.  rt is the type the callee's value is         *)
(* returned as ("void": nothing is returned).                              *)
(***************************************************************************)
Zero == FromInt(0, 64)

\* The expression v of type t.
Arg(t, v) == [t |-> t, v |-> v, f |-> ""]

\* The expression &v->f of type t.
Member(t, v, f) == [t |-> t, v |-> v, f |-> f]

\* The named constant or macro s of type t.
Sym(t, s) == [t |-> t, v |-> Zero, f |-> s]

Call(prim, args, rt) == [op |-> "call", prim |-> prim, args |-> args, rt |-> rt]

\* obj->field = val
Store(field, obj, val) == [op |-> "store", prim |-> field, args |-> <<obj, val>>, rt |-> "void"]

(***************************************************************************)
(* The wrappers, one operator per function of the helper sources.          *)
(***************************************************************************)

rust_helper_req_bvec(rq) ==
    <<Call("req_bvec", <<Arg("struct request *", rq)>>, "struct bio_vec")>>

rust_helper_blk_mq_rq_to_pdu(rq) ==
    <<Call("blk_mq_rq_to_pdu", <<Arg("struct request *", rq)>>, "void *")>>

rust_helper_blk_mq_rq_from_pdu(pdu) ==
    <<Call("blk_mq_rq_from_pdu", <<Arg("void *", pdu)>>, "struct request *")>>

rust_helper_bio_advance_iter_single(bio, iter, bytes) ==
    <<Call("bio_advance_iter_single", <<Arg("const struct bio *", bio), Arg("struct bvec_iter *", iter), Arg("unsigned int", bytes)>>, "void")>>

rust_helper_blk_mq_free_request_internal(req) ==
    <<Call("__blk_mq_free_request", <<Arg("struct request *", req)>>, "void")>>

rust_helper_blk_mq_tag_to_rq(tags, tag) ==
    <<Call("blk_mq_tag_to_rq", <<Arg("struct blk_mq_tags *", tags), Arg("unsigned int", tag)>>, "struct request *")>>

rust_helper_blk_rq_payload_bytes(rq) ==
    <<Call("blk_rq_payload_bytes", <<Arg("struct request *", rq)>>, "unsigned int")>>

rust_helper_blk_rq_nr_phys_segments(rq) ==
    <<Call("blk_rq_nr_phys_segments", <<Arg("struct request *", rq)>>, "unsigned short")>>

rust_helper_BUG ==
    <<Call("BUG", <<>>, "void")>>

rust_helper_errname(err) ==
    <<Call("errname", <<Arg("int", err)>>, "const char *")>>

rust_helper_num_possible_cpus ==
    <<Call("num_possible_cpus", <<>>, "unsigned int")>>

rust_helper_mdelay(ms) ==
    <<Call("mdelay", <<Arg("uint64_t", ms)>>, "void")>>

rust_helper_dev_get_drvdata(dev) ==
    <<Call("dev_get_drvdata", <<Arg("struct device *", dev)>>, "void *")>>

rust_helper_dev_name(dev) ==
    <<Call("dev_name", <<Arg("const struct device *", dev)>>, "const char *")>>

rust_helper_ERR_PTR(err) ==
    <<Call("ERR_PTR", <<Arg("long", err)>>, "void *")>>

\* A faulty variant, for comparison: the test that also takes NULL for an error.
rust_helper_IS_ERR_OrNull(ptr) ==
    <<Call("IS_ERR_OR_NULL", <<Arg("const void *", ptr)>>, "bool")>>

rust_helper_IS_ERR(ptr) ==
    <<Call("IS_ERR", <<Arg("const void *", ptr)>>, "bool")>>

rust_helper_PTR_ERR(ptr) ==
    <<Call("PTR_ERR", <<Arg("const void *", ptr)>>, "long")>>

rust_helper_folio_get(folio) ==
    <<Call("folio_get", <<Arg("struct folio *", folio)>>, "void")>>

rust_helper_folio_put(folio) ==
    <<Call("folio_put", <<Arg("struct folio *", folio)>>, "void")>>

rust_helper_folio_page(folio, n) ==
    <<Call("folio_page", <<Arg("struct folio *", folio), Arg("size_t", n)>>, "struct page *")>>

rust_helper_folio_pos(folio) ==
    <<Call("folio_pos", <<Arg("struct folio *", folio)>>, "loff_t")>>

rust_helper_folio_size(folio) ==
    <<Call("folio_size", <<Arg("struct folio *", folio)>>, "size_t")>>

rust_helper_folio_mark_uptodate(folio) ==
    <<Call("folio_mark_uptodate", <<Arg("struct folio *", folio)>>, "void")>>

rust_helper_folio_set_error(folio) ==
    <<Call("folio_set_error", <<Arg("struct folio *", folio)>>, "void")>>

rust_helper_folio_alloc(gfp, order) ==
    <<Call("folio_alloc", <<Arg("gfp_t", gfp), Arg("unsigned int", order)>>, "struct folio *")>>

rust_helper_flush_dcache_folio(folio) ==
    <<Call("flush_dcache_folio", <<Arg("struct folio *", folio)>>, "void")>>

rust_helper_kmap_local_folio(folio, offset) ==
    <<Call("kmap_local_folio", <<Arg("struct folio *", folio), Arg("size_t", offset)>>, "void *")>>

rust_helper_kmap(page) ==
    <<Call("kmap", <<Arg("struct page *", page)>>, "void *")>>

rust_helper_kunmap(page) ==
    <<Call("kunmap", <<Arg("struct page *", page)>>, "void")>>

rust_helper_readb(addr) ==
    <<Call("readb", <<Arg("const volatile void __iomem *", addr)>>, "u8")>>

rust_helper_readw(addr) ==
    <<Call("readw", <<Arg("const volatile void __iomem *", addr)>>, "u16")>>

rust_helper_readl(addr) ==
    <<Call("readl", <<Arg("const volatile void __iomem *", addr)>>, "u32")>>

rust_helper_readq(addr) ==
    <<Call("readq", <<Arg("const volatile void __iomem *", addr)>>, "u64")>>

rust_helper_writeb(value, addr) ==
    <<Call("writeb", <<Arg("u8", value), Arg("volatile void __iomem *", addr)>>, "void")>>

rust_helper_writew(value, addr) ==
    <<Call("writew", <<Arg("u16", value), Arg("volatile void __iomem *", addr)>>, "void")>>

rust_helper_writel(value, addr) ==
    <<Call("writel", <<Arg("u32", value), Arg("volatile void __iomem *", addr)>>, "void")>>

rust_helper_writeq(value, addr) ==
    <<Call("writeq", <<Arg("u64", value), Arg("volatile void __iomem *", addr)>>, "void")>>

rust_helper_readb_relaxed(addr) ==
    <<Call("readb_relaxed", <<Arg("const volatile void __iomem *", addr)>>, "u8")>>

rust_helper_readw_relaxed(addr) ==
    <<Call("readw_relaxed", <<Arg("const volatile void __iomem *", addr)>>, "u16")>>

rust_helper_readl_relaxed(addr) ==
    <<Call("readl_relaxed", <<Arg("const volatile void __iomem *", addr)>>, "u32")>>

rust_helper_readq_relaxed(addr) ==
    <<Call("readq_relaxed", <<Arg("const volatile void __iomem *", addr)>>, "u64")>>

rust_helper_writeb_relaxed(value, addr) ==
    <<Call("writeb_relaxed", <<Arg("u8", value), Arg("volatile void __iomem *", addr)>>, "void")>>

rust_helper_writew_relaxed(value, addr) ==
    <<Call("writew_relaxed", <<Arg("u16", value), Arg("volatile void __iomem *", addr)>>, "void")>>

rust_helper_writel_relaxed(value, addr) ==
    <<Call("writel_relaxed", <<Arg("u32", value), Arg("volatile void __iomem *", addr)>>, "void")>>

rust_helper_writeq_relaxed(value, addr) ==
    <<Call("writeq_relaxed", <<Arg("u64", value), Arg("volatile void __iomem *", addr)>>, "void")>>

rust_helper_memcpy_fromio(to, from, count) ==
    <<Call("memcpy_fromio", <<Arg("void *", to), Arg("const volatile void __iomem *", from), Arg("long", count)>>, "void")>>

rust_helper_kunit_get_current_test ==
    <<Call("kunit_get_current_test", <<>>, "struct kunit *")>>

rust_helper_mutex_lock(lock) ==
    <<Call("mutex_lock", <<Arg("struct mutex *", lock)>>, "void")>>

rust_helper_alloc_pages(gfp_mask, order) ==
    <<Call("alloc_pages", <<Arg("gfp_t", gfp_mask), Arg("unsigned int", order)>>, "struct page *")>>

rust_helper_kmap_local_page(page) ==
    <<Call("kmap_local_page", <<Arg("struct page *", page)>>, "void *")>>

rust_helper_kunmap_local(addr) ==
    <<Call("kunmap_local", <<Arg("const void *", addr)>>, "void")>>

\* A faulty variant, for comparison: the device stored in place of the data.
rust_helper_pci_set_drvdata_DeviceAsData(pdev, data) ==
    <<Call("pci_set_drvdata", <<Arg("struct pci_dev *", pdev), Arg("void *", pdev)>>, "void")>>

rust_helper_pci_set_drvdata(pdev, data) ==
    <<Call("pci_set_drvdata", <<Arg("struct pci_dev *", pdev), Arg("void *", data)>>, "void")>>

rust_helper_pci_get_drvdata(pdev) ==
    <<Call("pci_get_drvdata", <<Arg("struct pci_dev *", pdev)>>, "void *")>>

rust_helper_rcu_read_lock ==
    <<Call("rcu_read_lock", <<>>, "void")>>

rust_helper_rcu_read_unlock ==
    <<Call("rcu_read_unlock", <<>>, "void")>>

rust_helper_refcount_inc(r) ==
    <<Call("refcount_inc", <<Arg("refcount_t *", r)>>, "void")>>

\* A faulty variant, for comparison: the decrement that stops at 1 instead of testing for 0.
rust_helper_refcount_dec_and_test_NotOne(r) ==
    <<Call("refcount_dec_not_one", <<Arg("refcount_t *", r)>>, "bool")>>

rust_helper_refcount_dec_and_test(r) ==
    <<Call("refcount_dec_and_test", <<Arg("refcount_t *", r)>>, "bool")>>

rust_helper_signal_pending(t) ==
    <<Call("signal_pending", <<Arg("struct task_struct *", t)>>, "int")>>

rust_helper_spin_lock(lock) ==
    <<Call("spin_lock", <<Arg("spinlock_t *", lock)>>, "void")>>

rust_helper_spin_unlock(lock) ==
    <<Call("spin_unlock", <<Arg("spinlock_t *", lock)>>, "void")>>

rust_helper_get_task_struct(t) ==
    <<Call("get_task_struct", <<Arg("struct task_struct *", t)>>, "void")>>

rust_helper_put_task_struct(t) ==
    <<Call("put_task_struct", <<Arg("struct task_struct *", t)>>, "void")>>

rust_helper_init_wait(wq_entry) ==
    <<Call("init_wait", <<Arg("struct wait_queue_entry *", wq_entry)>>, "void")>>

rust_helper_pci_resource_start(pdev, bar) ==
    <<Call("pci_resource_start", <<Arg("struct pci_dev *", pdev), Arg("int", bar)>>, "u64")>>

\* A faulty variant, for comparison: the increment made without the test for zero.
rust_helper_req_ref_inc_not_zero_Unconditional(req) ==
    <<Call("atomic_inc_return", <<Member("atomic_t *", req, "ref")>>, "bool")>>

rust_helper_req_ref_inc_not_zero(req) ==
    <<Call("atomic_inc_not_zero", <<Member("atomic_t *", req, "ref")>>, "bool")>>

\* A faulty variant, for comparison: the request itself passed where the address of its ref member belongs.
rust_helper_req_ref_put_and_test_WholeRequest(req) ==
    <<Call("atomic_dec_and_test", <<Arg("struct request *", req)>>, "bool")>>

rust_helper_req_ref_put_and_test(req) ==
    <<Call("atomic_dec_and_test", <<Member("atomic_t *", req, "ref")>>, "bool")>>

rust_helper_REFCOUNT_INIT(n) ==
    <<Call("REFCOUNT_INIT", <<Arg("int", n)>>, "refcount_t")>>

\* A faulty variant, for comparison: the plain initialisation taken in every configuration.
rust_helper___spin_lock_init_PlainOnly(c, lock, name, key) ==
    <<Call("spin_lock_init", <<Arg("spinlock_t *", lock)>>, "void")>>

rust_helper___spin_lock_init(c, lock, name, key) ==
    IF c.DEBUG_SPINLOCK
    THEN <<Call("__raw_spin_lock_init",
                <<Member("raw_spinlock_t *", lock, "rlock"),
                  Arg("const char *", name),
                  Arg("struct lock_class_key *", key),
                  Sym("int", "LD_WAIT_CONFIG")>>, "void")>>
    ELSE <<Call("spin_lock_init", <<Arg("spinlock_t *", lock)>>, "void")>>

rust_helper_get_current ==
    <<Call("current", <<>>, "struct task_struct *")>>

\* A faulty variant, for comparison: the callback installed before the linkage node is reset.
rust_helper_init_work_with_key_FuncBeforeList(work, func, onstack, name, key) ==
    << Call("__init_work",
            <<Arg("struct work_struct *", work), Arg("bool", onstack)>>, "void"),
       Store("data", Arg("struct work_struct *", work),
             Sym("atomic_long_t", "WORK_DATA_INIT")),
       Call("lockdep_init_map",
            <<Member("struct lockdep_map *", work, "lockdep_map"),
              Arg("const char *", name),
              Arg("struct lock_class_key *", key),
              Sym("int", "0")>>, "void"),
       Store("func", Arg("struct work_struct *", work), Arg("work_func_t", func)),
       Call("INIT_LIST_HEAD",
            <<Member("struct list_head *", work, "entry")>>, "void") >>

rust_helper_init_work_with_key(work, func, onstack, name, key) ==
    << Call("__init_work",
            <<Arg("struct work_struct *", work), Arg("bool", onstack)>>, "void"),
       Store("data", Arg("struct work_struct *", work),
             Sym("atomic_long_t", "WORK_DATA_INIT")),
       Call("lockdep_init_map",
            <<Member("struct lockdep_map *", work, "lockdep_map"),
              Arg("const char *", name),
              Arg("struct lock_class_key *", key),
              Sym("int", "0")>>, "void"),
       Call("INIT_LIST_HEAD",
            <<Member("struct list_head *", work, "entry")>>, "void"),
       Store("func", Arg("struct work_struct *", work), Arg("work_func_t", func)) >>


(***************************************************************************)
(* The wrappers by name: their parameter lists, and the dispatch of a call *)
(* by name to the wrapper's body.                                          *)
(***************************************************************************)

Params(w) ==
    CASE w = "req_bvec" -> <<"struct request *">>
      [] w = "blk_mq_rq_to_pdu" -> <<"struct request *">>
      [] w = "blk_mq_rq_from_pdu" -> <<"void *">>
      [] w = "bio_advance_iter_single" -> <<"const struct bio *", "struct bvec_iter *", "unsigned int">>
      [] w = "req_ref_inc_not_zero" -> <<"struct request *">>
      [] w = "req_ref_put_and_test" -> <<"struct request *">>
      [] w = "blk_mq_free_request_internal" -> <<"struct request *">>
      [] w = "blk_mq_tag_to_rq" -> <<"struct blk_mq_tags *", "unsigned int">>
      [] w = "blk_rq_payload_bytes" -> <<"struct request *">>
      [] w = "blk_rq_nr_phys_segments" -> <<"struct request *">>
      [] w = "BUG" -> <<>>
      [] w = "errname" -> <<"int">>
      [] w = "num_possible_cpus" -> <<>>
      [] w = "mdelay" -> <<"uint64_t">>
      [] w = "dev_get_drvdata" -> <<"struct device *">>
      [] w = "dev_name" -> <<"const struct device *">>
      [] w = "ERR_PTR" -> <<"long">>
      [] w = "IS_ERR" -> <<"const void *">>
      [] w = "PTR_ERR" -> <<"const void *">>
      [] w = "folio_get" -> <<"struct folio *">>
      [] w = "folio_put" -> <<"struct folio *">>
      [] w = "folio_page" -> <<"struct folio *", "size_t">>
      [] w = "folio_pos" -> <<"struct folio *">>
      [] w = "folio_size" -> <<"struct folio *">>
      [] w = "folio_mark_uptodate" -> <<"struct folio *">>
      [] w = "folio_set_error" -> <<"struct folio *">>
      [] w = "folio_alloc" -> <<"gfp_t", "unsigned int">>
      [] w = "flush_dcache_folio" -> <<"struct folio *">>
      [] w = "kmap_local_folio" -> <<"struct folio *", "size_t">>
      [] w = "kmap" -> <<"struct page *">>
      [] w = "kunmap" -> <<"struct page *">>
      [] w = "readb" -> <<"const volatile void __iomem *">>
      [] w = "readw" -> <<"const volatile void __iomem *">>
      [] w = "readl" -> <<"const volatile void __iomem *">>
      [] w = "readq" -> <<"const volatile void __iomem *">>
      [] w = "writeb" -> <<"u8", "volatile void __iomem *">>
      [] w = "writew" -> <<"u16", "volatile void __iomem *">>
      [] w = "writel" -> <<"u32", "volatile void __iomem *">>
      [] w = "writeq" -> <<"u64", "volatile void __iomem *">>
      [] w = "readb_relaxed" -> <<"const volatile void __iomem *">>
      [] w = "readw_relaxed" -> <<"const volatile void __iomem *">>
      [] w = "readl_relaxed" -> <<"const volatile void __iomem *">>
      [] w = "readq_relaxed" -> <<"const volatile void __iomem *">>
      [] w = "writeb_relaxed" -> <<"u8", "volatile void __iomem *">>
      [] w = "writew_relaxed" -> <<"u16", "volatile void __iomem *">>
      [] w = "writel_relaxed" -> <<"u32", "volatile void __iomem *">>
      [] w = "writeq_relaxed" -> <<"u64", "volatile void __iomem *">>
      [] w = "memcpy_fromio" -> <<"void *", "const volatile void __iomem *", "long">>
      [] w = "kunit_get_current_test" -> <<>>
      [] w = "mutex_lock" -> <<"struct mutex *">>
      [] w = "alloc_pages" -> <<"gfp_t", "unsigned int">>
      [] w = "kmap_local_page" -> <<"struct page *">>
      [] w = "kunmap_local" -> <<"const void *">>
      [] w = "pci_set_drvdata" -> <<"struct pci_dev *", "void *">>
      [] w = "pci_get_drvdata" -> <<"struct pci_dev *">>
      [] w = "rcu_read_lock" -> <<>>
      [] w = "rcu_read_unlock" -> <<>>
      [] w = "REFCOUNT_INIT" -> <<"int">>
      [] w = "refcount_inc" -> <<"refcount_t *">>
      [] w = "refcount_dec_and_test" -> <<"refcount_t *">>
      [] w = "signal_pending" -> <<"struct task_struct *">>
      [] w = "__spin_lock_init" -> <<"spinlock_t *", "const char *", "struct lock_class_key *">>
      [] w = "spin_lock" -> <<"spinlock_t *">>
      [] w = "spin_unlock" -> <<"spinlock_t *">>
      [] w = "get_current" -> <<>>
      [] w = "get_task_struct" -> <<"struct task_struct *">>
      [] w = "put_task_struct" -> <<"struct task_struct *">>
      [] w = "init_wait" -> <<"struct wait_queue_entry *">>
      [] w = "init_work_with_key" -> <<"struct work_struct *", "work_func_t", "bool", "const char *", "struct lock_class_key *">>
      [] w = "pci_resource_start" -> <<"struct pci_dev *", "int">>

Shim(w, c, a) ==
    CASE w = "req_bvec" -> rust_helper_req_bvec(a[1])
      [] w = "blk_mq_rq_to_pdu" -> rust_helper_blk_mq_rq_to_pdu(a[1])
      [] w = "blk_mq_rq_from_pdu" -> rust_helper_blk_mq_rq_from_pdu(a[1])
      [] w = "bio_advance_iter_single" -> rust_helper_bio_advance_iter_single(a[1], a[2], a[3])
      [] w = "req_ref_inc_not_zero" -> rust_helper_req_ref_inc_not_zero(a[1])
      [] w = "req_ref_put_and_test" -> rust_helper_req_ref_put_and_test(a[1])
      [] w = "blk_mq_free_request_internal" -> rust_helper_blk_mq_free_request_internal(a[1])
      [] w = "blk_mq_tag_to_rq" -> rust_helper_blk_mq_tag_to_rq(a[1], a[2])
      [] w = "blk_rq_payload_bytes" -> rust_helper_blk_rq_payload_bytes(a[1])
      [] w = "blk_rq_nr_phys_segments" -> rust_helper_blk_rq_nr_phys_segments(a[1])
      [] w = "BUG" -> rust_helper_BUG
      [] w = "errname" -> rust_helper_errname(a[1])
      [] w = "num_possible_cpus" -> rust_helper_num_possible_cpus
      [] w = "mdelay" -> rust_helper_mdelay(a[1])
      [] w = "dev_get_drvdata" -> rust_helper_dev_get_drvdata(a[1])
      [] w = "dev_name" -> rust_helper_dev_name(a[1])
      [] w = "ERR_PTR" -> rust_helper_ERR_PTR(a[1])
      [] w = "IS_ERR" -> rust_helper_IS_ERR(a[1])
      [] w = "PTR_ERR" -> rust_helper_PTR_ERR(a[1])
      [] w = "folio_get" -> rust_helper_folio_get(a[1])
      [] w = "folio_put" -> rust_helper_folio_put(a[1])
      [] w = "folio_page" -> rust_helper_folio_page(a[1], a[2])
      [] w = "folio_pos" -> rust_helper_folio_pos(a[1])
      [] w = "folio_size" -> rust_helper_folio_size(a[1])
      [] w = "folio_mark_uptodate" -> rust_helper_folio_mark_uptodate(a[1])
      [] w = "folio_set_error" -> rust_helper_folio_set_error(a[1])
      [] w = "folio_alloc" -> rust_helper_folio_alloc(a[1], a[2])
      [] w = "flush_dcache_folio" -> rust_helper_flush_dcache_folio(a[1])
      [] w = "kmap_local_folio" -> rust_helper_kmap_local_folio(a[1], a[2])
      [] w = "kmap" -> rust_helper_kmap(a[1])
      [] w = "kunmap" -> rust_helper_kunmap(a[1])
      [] w = "readb" -> rust_helper_readb(a[1])
      [] w = "readw" -> rust_helper_readw(a[1])
      [] w = "readl" -> rust_helper_readl(a[1])
      [] w = "readq" -> rust_helper_readq(a[1])
      [] w = "writeb" -> rust_helper_writeb(a[1], a[2])
      [] w = "writew" -> rust_helper_writew(a[1], a[2])
      [] w = "writel" -> rust_helper_writel(a[1], a[2])
      [] w = "writeq" -> rust_helper_writeq(a[1], a[2])
      [] w = "readb_relaxed" -> rust_helper_readb_relaxed(a[1])
      [] w = "readw_relaxed" -> rust_helper_readw_relaxed(a[1])
      [] w = "readl_relaxed" -> rust_helper_readl_relaxed(a[1])
      [] w = "readq_relaxed" -> rust_helper_readq_relaxed(a[1])
      [] w = "writeb_relaxed" -> rust_helper_writeb_relaxed(a[1], a[2])
      [] w = "writew_relaxed" -> rust_helper_writew_relaxed(a[1], a[2])
      [] w = "writel_relaxed" -> rust_helper_writel_relaxed(a[1], a[2])
      [] w = "writeq_relaxed" -> rust_helper_writeq_relaxed(a[1], a[2])
      [] w = "memcpy_fromio" -> rust_helper_memcpy_fromio(a[1], a[2], a[3])
      [] w = "kunit_get_current_test" -> rust_helper_kunit_get_current_test
      [] w = "mutex_lock" -> rust_helper_mutex_lock(a[1])
      [] w = "alloc_pages" -> rust_helper_alloc_pages(a[1], a[2])
      [] w = "kmap_local_page" -> rust_helper_kmap_local_page(a[1])
      [] w = "kunmap_local" -> rust_helper_kunmap_local(a[1])
      [] w = "pci_set_drvdata" -> rust_helper_pci_set_drvdata(a[1], a[2])
      [] w = "pci_get_drvdata" -> rust_helper_pci_get_drvdata(a[1])
      [] w = "rcu_read_lock" -> rust_helper_rcu_read_lock
      [] w = "rcu_read_unlock" -> rust_helper_rcu_read_unlock
      [] w = "REFCOUNT_INIT" -> rust_helper_REFCOUNT_INIT(a[1])
      [] w = "refcount_inc" -> rust_helper_refcount_inc(a[1])
      [] w = "refcount_dec_and_test" -> rust_helper_refcount_dec_and_test(a[1])
      [] w = "signal_pending" -> rust_helper_signal_pending(a[1])
      [] w = "__spin_lock_init" -> rust_helper___spin_lock_init(c, a[1], a[2], a[3])
      [] w = "spin_lock" -> rust_helper_spin_lock(a[1])
      [] w = "spin_unlock" -> rust_helper_spin_unlock(a[1])
      [] w = "get_current" -> rust_helper_get_current
      [] w = "get_task_struct" -> rust_helper_get_task_struct(a[1])
      [] w = "put_task_struct" -> rust_helper_put_task_struct(a[1])
      [] w = "init_wait" -> rust_helper_init_wait(a[1])
      [] w = "init_work_with_key" -> rust_helper_init_work_with_key(a[1], a[2], a[3], a[4], a[5])
      [] w = "pci_resource_start" -> rust_helper_pci_resource_start(a[1], a[2])


Returns(w) ==
    CASE w = "req_bvec" -> "struct bio_vec"
      [] w = "blk_mq_rq_to_pdu" -> "void *"
      [] w = "blk_mq_rq_from_pdu" -> "struct request *"
      [] w = "bio_advance_iter_single" -> "void"
      [] w = "req_ref_inc_not_zero" -> "bool"
      [] w = "req_ref_put_and_test" -> "bool"
      [] w = "blk_mq_free_request_internal" -> "void"
      [] w = "blk_mq_tag_to_rq" -> "struct request *"
      [] w = "blk_rq_payload_bytes" -> "unsigned int"
      [] w = "blk_rq_nr_phys_segments" -> "unsigned short"
      [] w = "BUG" -> "void"
      [] w = "errname" -> "const char *"
      [] w = "num_possible_cpus" -> "unsigned int"
      [] w = "mdelay" -> "void"
      [] w = "dev_get_drvdata" -> "void *"
      [] w = "dev_name" -> "const char *"
      [] w = "ERR_PTR" -> "void *"
      [] w = "IS_ERR" -> "bool"
      [] w = "PTR_ERR" -> "long"
      [] w = "folio_get" -> "void"
      [] w = "folio_put" -> "void"
      [] w = "folio_page" -> "struct page *"
      [] w = "folio_pos" -> "loff_t"
      [] w = "folio_size" -> "size_t"
      [] w = "folio_mark_uptodate" -> "void"
      [] w = "folio_set_error" -> "void"
      [] w = "folio_alloc" -> "struct folio *"
      [] w = "flush_dcache_folio" -> "void"
      [] w = "kmap_local_folio" -> "void *"
      [] w = "kmap" -> "void *"
      [] w = "kunmap" -> "void"
      [] w = "readb" -> "u8"
      [] w = "readw" -> "u16"
      [] w = "readl" -> "u32"
      [] w = "readq" -> "u64"
      [] w = "writeb" -> "void"
      [] w = "writew" -> "void"
      [] w = "writel" -> "void"
      [] w = "writeq" -> "void"
      [] w = "readb_relaxed" -> "u8"
      [] w = "readw_relaxed" -> "u16"
      [] w = "readl_relaxed" -> "u32"
      [] w = "readq_relaxed" -> "u64"
      [] w = "writeb_relaxed" -> "void"
      [] w = "writew_relaxed" -> "void"
      [] w = "writel_relaxed" -> "void"
      [] w = "writeq_relaxed" -> "void"
      [] w = "memcpy_fromio" -> "void"
      [] w = "kunit_get_current_test" -> "struct kunit *"
      [] w = "mutex_lock" -> "void"
      [] w = "alloc_pages" -> "struct page *"
      [] w = "kmap_local_page" -> "void *"
      [] w = "kunmap_local" -> "void"
      [] w = "pci_set_drvdata" -> "void"
      [] w = "pci_get_drvdata" -> "void *"
      [] w = "rcu_read_lock" -> "void"
      [] w = "rcu_read_unlock" -> "void"
      [] w = "REFCOUNT_INIT" -> "refcount_t"
      [] w = "refcount_inc" -> "void"
      [] w = "refcount_dec_and_test" -> "bool"
      [] w = "signal_pending" -> "int"
      [] w = "__spin_lock_init" -> "void"
      [] w = "spin_lock" -> "void"
      [] w = "spin_unlock" -> "void"
      [] w = "get_current" -> "struct task_struct *"
      [] w = "get_task_struct" -> "void"
      [] w = "put_task_struct" -> "void"
      [] w = "init_wait" -> "void"
      [] w = "init_work_with_key" -> "void"
      [] w = "pci_resource_start" -> "u64"

(***************************************************************************)
(* The helper sources as the build sees them: every function definition    *)
(* and every EXPORT_SYMBOL_GPL line, in order, with the preprocessor       *)
(* condition that encloses it.  Unit 1 is the combined helper file, unit 2 *)
(* the PCI helper file.                                                    *)
(***************************************************************************)

Items ==
    << [kind |-> "def", name |-> "req_bvec", guard |-> "", unit |-> 1, line |-> 5],
      [kind |-> "export", name |-> "req_bvec", guard |-> "", unit |-> 1, line |-> 9],
      [kind |-> "def", name |-> "blk_mq_rq_to_pdu", guard |-> "", unit |-> 1, line |-> 11],
      [kind |-> "export", name |-> "blk_mq_rq_to_pdu", guard |-> "", unit |-> 1, line |-> 15],
      [kind |-> "def", name |-> "blk_mq_rq_from_pdu", guard |-> "", unit |-> 1, line |-> 17],
      [kind |-> "export", name |-> "blk_mq_rq_from_pdu", guard |-> "", unit |-> 1, line |-> 21],
      [kind |-> "def", name |-> "bio_advance_iter_single", guard |-> "", unit |-> 1, line |-> 23],
      [kind |-> "export", name |-> "bio_advance_iter_single", guard |-> "", unit |-> 1, line |-> 29],
      [kind |-> "def", name |-> "req_ref_inc_not_zero", guard |-> "", unit |-> 1, line |-> 32],
      [kind |-> "export", name |-> "req_ref_inc_not_zero", guard |-> "", unit |-> 1, line |-> 36],
      [kind |-> "def", name |-> "req_ref_put_and_test", guard |-> "", unit |-> 1, line |-> 38],
      [kind |-> "export", name |-> "req_ref_put_and_test", guard |-> "", unit |-> 1, line |-> 42],
      [kind |-> "def", name |-> "blk_mq_free_request_internal", guard |-> "", unit |-> 1, line |-> 44],
      [kind |-> "export", name |-> "blk_mq_free_request_internal", guard |-> "", unit |-> 1, line |-> 48],
      [kind |-> "def", name |-> "blk_mq_tag_to_rq", guard |-> "", unit |-> 1, line |-> 50],
      [kind |-> "export", name |-> "blk_mq_tag_to_rq", guard |-> "", unit |-> 1, line |-> 55],
      [kind |-> "def", name |-> "blk_rq_payload_bytes", guard |-> "", unit |-> 1, line |-> 57],
      [kind |-> "export", name |-> "blk_rq_payload_bytes", guard |-> "", unit |-> 1, line |-> 61],
      [kind |-> "def", name |-> "blk_rq_nr_phys_segments", guard |-> "", unit |-> 1, line |-> 63],
      [kind |-> "export", name |-> "blk_rq_nr_phys_segments", guard |-> "", unit |-> 1, line |-> 67],
      [kind |-> "def", name |-> "BUG", guard |-> "", unit |-> 1, line |-> 72],
      [kind |-> "export", name |-> "BUG", guard |-> "", unit |-> 1, line |-> 76],
      [kind |-> "def", name |-> "errname", guard |-> "", unit |-> 1, line |-> 107],
      [kind |-> "export", name |-> "errname", guard |-> "", unit |-> 1, line |-> 111],
      [kind |-> "def", name |-> "num_possible_cpus", guard |-> "", unit |-> 1, line |-> 116],
      [kind |-> "export", name |-> "num_possible_cpus", guard |-> "", unit |-> 1, line |-> 120],
      [kind |-> "def", name |-> "mdelay", guard |-> "", unit |-> 1, line |-> 125],
      [kind |-> "export", name |-> "mdelay", guard |-> "", unit |-> 1, line |-> 129],
      [kind |-> "def", name |-> "dev_get_drvdata", guard |-> "", unit |-> 1, line |-> 134],
      [kind |-> "export", name |-> "dev_get_drvdata", guard |-> "", unit |-> 1, line |-> 138],
      [kind |-> "def", name |-> "dev_name", guard |-> "", unit |-> 1, line |-> 140],
      [kind |-> "export", name |-> "dev_name", guard |-> "", unit |-> 1, line |-> 144],
      [kind |-> "def", name |-> "ERR_PTR", guard |-> "", unit |-> 1, line |-> 150],
      [kind |-> "export", name |-> "ERR_PTR", guard |-> "", unit |-> 1, line |-> 154],
      [kind |-> "def", name |-> "IS_ERR", guard |-> "", unit |-> 1, line |-> 156],
      [kind |-> "export", name |-> "IS_ERR", guard |-> "", unit |-> 1, line |-> 160],
      [kind |-> "def", name |-> "PTR_ERR", guard |-> "", unit |-> 1, line |-> 162],
      [kind |-> "export", name |-> "PTR_ERR", guard |-> "", unit |-> 1, line |-> 166],
      [kind |-> "def", name |-> "folio_get", guard |-> "", unit |-> 1, line |-> 171],
      [kind |-> "export", name |-> "folio_get", guard |-> "", unit |-> 1, line |-> 175],
      [kind |-> "def", name |-> "folio_put", guard |-> "", unit |-> 1, line |-> 177],
      [kind |-> "export", name |-> "folio_put", guard |-> "", unit |-> 1, line |-> 181],
      [kind |-> "def", name |-> "folio_page", guard |-> "", unit |-> 1, line |-> 183],
      [kind |-> "def", name |-> "folio_pos", guard |-> "", unit |-> 1, line |-> 188],
      [kind |-> "export", name |-> "folio_pos", guard |-> "", unit |-> 1, line |-> 192],
      [kind |-> "def", name |-> "folio_size", guard |-> "", unit |-> 1, line |-> 194],
      [kind |-> "export", name |-> "folio_size", guard |-> "", unit |-> 1, line |-> 198],
      [kind |-> "def", name |-> "folio_mark_uptodate", guard |-> "", unit |-> 1, line |-> 200],
      [kind |-> "export", name |-> "folio_mark_uptodate", guard |-> "", unit |-> 1, line |-> 204],
      [kind |-> "def", name |-> "folio_set_error", guard |-> "", unit |-> 1, line |-> 206],
      [kind |-> "export", name |-> "folio_set_error", guard |-> "", unit |-> 1, line |-> 210],
      [kind |-> "def", name |-> "folio_alloc", guard |-> "!NUMA", unit |-> 1, line |-> 213],
      [kind |-> "export", name |-> "folio_alloc", guard |-> "!NUMA", unit |-> 1, line |-> 217],
      [kind |-> "def", name |-> "flush_dcache_folio", guard |-> "", unit |-> 1, line |-> 220],
      [kind |-> "export", name |-> "flush_dcache_folio", guard |-> "", unit |-> 1, line |-> 224],
      [kind |-> "def", name |-> "kmap_local_folio", guard |-> "", unit |-> 1, line |-> 226],
      [kind |-> "export", name |-> "kmap_local_folio", guard |-> "", unit |-> 1, line |-> 230],
      [kind |-> "def", name |-> "kmap", guard |-> "", unit |-> 1, line |-> 232],
      [kind |-> "export", name |-> "kmap", guard |-> "", unit |-> 1, line |-> 236],
      [kind |-> "def", name |-> "kunmap", guard |-> "", unit |-> 1, line |-> 238],
      [kind |-> "export", name |-> "kunmap", guard |-> "", unit |-> 1, line |-> 242],
      [kind |-> "def", name |-> "readb", guard |-> "", unit |-> 1, line |-> 247],
      [kind |-> "export", name |-> "readb", guard |-> "", unit |-> 1, line |-> 251],
      [kind |-> "def", name |-> "readw", guard |-> "", unit |-> 1, line |-> 253],
      [kind |-> "export", name |-> "readw", guard |-> "", unit |-> 1, line |-> 257],
      [kind |-> "def", name |-> "readl", guard |-> "", unit |-> 1, line |-> 259],
      [kind |-> "export", name |-> "readl", guard |-> "", unit |-> 1, line |-> 263],
      [kind |-> "def", name |-> "readq", guard |-> "64BIT", unit |-> 1, line |-> 266],
      [kind |-> "export", name |-> "readq", guard |-> "64BIT", unit |-> 1, line |-> 270],
      [kind |-> "def", name |-> "writeb", guard |-> "", unit |-> 1, line |-> 273],
      [kind |-> "export", name |-> "writeb", guard |-> "", unit |-> 1, line |-> 277],
      [kind |-> "def", name |-> "writew", guard |-> "", unit |-> 1, line |-> 279],
      [kind |-> "export", name |-> "writew", guard |-> "", unit |-> 1, line |-> 283],
      [kind |-> "def", name |-> "writel", guard |-> "", unit |-> 1, line |-> 285],
      [kind |-> "export", name |-> "writel", guard |-> "", unit |-> 1, line |-> 289],
      [kind |-> "def", name |-> "writeq", guard |-> "64BIT", unit |-> 1, line |-> 292],
      [kind |-> "export", name |-> "writeq", guard |-> "64BIT", unit |-> 1, line |-> 296],
      [kind |-> "def", name |-> "readb_relaxed", guard |-> "", unit |-> 1, line |-> 299],
      [kind |-> "export", name |-> "readb_relaxed", guard |-> "", unit |-> 1, line |-> 303],
      [kind |-> "def", name |-> "readw_relaxed", guard |-> "", unit |-> 1, line |-> 305],
      [kind |-> "export", name |-> "readw_relaxed", guard |-> "", unit |-> 1, line |-> 309],
      [kind |-> "def", name |-> "readl_relaxed", guard |-> "", unit |-> 1, line |-> 311],
      [kind |-> "export", name |-> "readl_relaxed", guard |-> "", unit |-> 1, line |-> 315],
      [kind |-> "def", name |-> "readq_relaxed", guard |-> "64BIT", unit |-> 1, line |-> 318],
      [kind |-> "export", name |-> "readq_relaxed", guard |-> "64BIT", unit |-> 1, line |-> 322],
      [kind |-> "def", name |-> "writeb_relaxed", guard |-> "", unit |-> 1, line |-> 325],
      [kind |-> "export", name |-> "writeb_relaxed", guard |-> "", unit |-> 1, line |-> 329],
      [kind |-> "def", name |-> "writew_relaxed", guard |-> "", unit |-> 1, line |-> 331],
      [kind |-> "export", name |-> "writew_relaxed", guard |-> "", unit |-> 1, line |-> 335],
      [kind |-> "def", name |-> "writel_relaxed", guard |-> "", unit |-> 1, line |-> 337],
      [kind |-> "export", name |-> "writel_relaxed", guard |-> "", unit |-> 1, line |-> 341],
      [kind |-> "def", name |-> "writeq_relaxed", guard |-> "64BIT", unit |-> 1, line |-> 344],
      [kind |-> "export", name |-> "writeq_relaxed", guard |-> "64BIT", unit |-> 1, line |-> 348],
      [kind |-> "def", name |-> "memcpy_fromio", guard |-> "", unit |-> 1, line |-> 351],
      [kind |-> "export", name |-> "memcpy_fromio", guard |-> "", unit |-> 1, line |-> 355],
      [kind |-> "def", name |-> "kunit_get_current_test", guard |-> "", unit |-> 1, line |-> 361],
      [kind |-> "export", name |-> "kunit_get_current_test", guard |-> "", unit |-> 1, line |-> 365],
      [kind |-> "def", name |-> "mutex_lock", guard |-> "", unit |-> 1, line |-> 371],
      [kind |-> "export", name |-> "mutex_lock", guard |-> "", unit |-> 1, line |-> 375],
      [kind |-> "def", name |-> "alloc_pages", guard |-> "", unit |-> 1, line |-> 381],
      [kind |-> "export", name |-> "alloc_pages", guard |-> "", unit |-> 1, line |-> 385],
      [kind |-> "def", name |-> "kmap_local_page", guard |-> "", unit |-> 1, line |-> 387],
      [kind |-> "export", name |-> "kmap_local_page", guard |-> "", unit |-> 1, line |-> 391],
      [kind |-> "def", name |-> "kunmap_local", guard |-> "", unit |-> 1, line |-> 393],
      [kind |-> "export", name |-> "kunmap_local", guard |-> "", unit |-> 1, line |-> 397],
      [kind |-> "def", name |-> "pci_set_drvdata", guard |-> "", unit |-> 1, line |-> 402],
      [kind |-> "export", name |-> "pci_set_drvdata", guard |-> "", unit |-> 1, line |-> 406],
      [kind |-> "def", name |-> "pci_get_drvdata", guard |-> "", unit |-> 1, line |-> 408],
      [kind |-> "export", name |-> "pci_get_drvdata", guard |-> "", unit |-> 1, line |-> 412],
      [kind |-> "def", name |-> "rcu_read_lock", guard |-> "", unit |-> 1, line |-> 417],
      [kind |-> "export", name |-> "rcu_read_lock", guard |-> "", unit |-> 1, line |-> 421],
      [kind |-> "def", name |-> "rcu_read_unlock", guard |-> "", unit |-> 1, line |-> 423],
      [kind |-> "export", name |-> "rcu_read_unlock", guard |-> "", unit |-> 1, line |-> 427],
      [kind |-> "def", name |-> "REFCOUNT_INIT", guard |-> "", unit |-> 1, line |-> 433],
      [kind |-> "export", name |-> "REFCOUNT_INIT", guard |-> "", unit |-> 1, line |-> 437],
      [kind |-> "def", name |-> "refcount_inc", guard |-> "", unit |-> 1, line |-> 439],
      [kind |-> "export", name |-> "refcount_inc", guard |-> "", unit |-> 1, line |-> 443],
      [kind |-> "def", name |-> "refcount_dec_and_test", guard |-> "", unit |-> 1, line |-> 445],
      [kind |-> "export", name |-> "refcount_dec_and_test", guard |-> "", unit |-> 1, line |-> 449],
      [kind |-> "def", name |-> "signal_pending", guard |-> "", unit |-> 1, line |-> 455],
      [kind |-> "export", name |-> "signal_pending", guard |-> "", unit |-> 1, line |-> 459],
      [kind |-> "def", name |-> "__spin_lock_init", guard |-> "", unit |-> 1, line |-> 465],
      [kind |-> "export", name |-> "__spin_lock_init", guard |-> "", unit |-> 1, line |-> 474],
      [kind |-> "def", name |-> "spin_lock", guard |-> "", unit |-> 1, line |-> 476],
      [kind |-> "export", name |-> "spin_lock", guard |-> "", unit |-> 1, line |-> 480],
      [kind |-> "def", name |-> "spin_unlock", guard |-> "", unit |-> 1, line |-> 482],
      [kind |-> "export", name |-> "spin_unlock", guard |-> "", unit |-> 1, line |-> 486],
      [kind |-> "def", name |-> "get_current", guard |-> "", unit |-> 1, line |-> 492],
      [kind |-> "export", name |-> "get_current", guard |-> "", unit |-> 1, line |-> 496],
      [kind |-> "def", name |-> "get_task_struct", guard |-> "", unit |-> 1, line |-> 498],
      [kind |-> "export", name |-> "get_task_struct", guard |-> "", unit |-> 1, line |-> 502],
      [kind |-> "def", name |-> "put_task_struct", guard |-> "", unit |-> 1, line |-> 504],
      [kind |-> "export", name |-> "put_task_struct", guard |-> "", unit |-> 1, line |-> 508],
      [kind |-> "def", name |-> "init_wait", guard |-> "", unit |-> 1, line |-> 514],
      [kind |-> "export", name |-> "init_wait", guard |-> "", unit |-> 1, line |-> 518],
      [kind |-> "def", name |-> "init_work_with_key", guard |-> "", unit |-> 1, line |-> 524],
      [kind |-> "export", name |-> "init_work_with_key", guard |-> "", unit |-> 1, line |-> 534],
      [kind |-> "def", name |-> "pci_set_drvdata", guard |-> "", unit |-> 2, line |-> 6],
      [kind |-> "export", name |-> "pci_set_drvdata", guard |-> "", unit |-> 2, line |-> 10],
      [kind |-> "def", name |-> "pci_get_drvdata", guard |-> "", unit |-> 2, line |-> 12],
      [kind |-> "export", name |-> "pci_get_drvdata", guard |-> "", unit |-> 2, line |-> 16],
      [kind |-> "def", name |-> "pci_resource_start", guard |-> "", unit |-> 2, line |-> 18],
      [kind |-> "export", name |-> "pci_resource_start", guard |-> "", unit |-> 2, line |-> 22]
    >>


GuardActive(g, c) ==
    CASE g = "" -> TRUE
      [] g = "64BIT" -> c.B64
      [] g = "!NUMA" -> ~c.NUMA

\* The wrappers the sources define, whatever the configuration.
AllWrappers == {Items[i].name : i \in {j \in 1..Len(Items) : Items[j].kind = "def"}}

\* The wrappers compiled, and those exported, under configuration c.
DefinedSymbols(c) ==
    {Items[i].name : i \in {j \in 1..Len(Items) :
        Items[j].kind = "def" /\ GuardActive(Items[j].guard, c)}}

ExportedSymbols(c) ==
    {Items[i].name : i \in {j \in 1..Len(Items) :
        Items[j].kind = "export" /\ GuardActive(Items[j].guard, c)}}

(***************************************************************************)
(* Idle values of the variable groups a specification does not use.        *)
(***************************************************************************)
BuildIdle == pos = 0 /\ defined = {} /\ exported = {}
EquivIdle == wlog = <<>> /\ dlog = <<>> /\ wret = Zero /\ dret = Zero /\ sent = <<>>
ErrIdle == e_phase = "off" /\ e_code = 0 /\ e_ptr = Zero /\ e_is = FALSE /\ e_dec = Zero
RefIdle ==
    /\ req_ref = 0 /\ refs = 0 /\ rc_init = 0
    /\ rc_thr = <<>> /\ rc_hist = <<>> /\ rc_last = <<>>
WorkIdle == witem = <<>> /\ wk_pc = 0 /\ wk_args = <<>> /\ wk_trace = <<>> /\ wq = <<>>
LockIdle == spin = <<>> /\ lk_args = <<>> /\ lk_thr = <<>>
DrvIdle == drvdata = <<>> /\ dd_stored = <<>> /\ dd_last = <<>>

(***************************************************************************)
(* The build: the items are compiled in order under the configuration.     *)
(***************************************************************************)
InitBuild ==
    /\ cfg \in Configs
    /\ pos = 1 /\ defined = {} /\ exported = {}
    /\ EquivIdle /\ ErrIdle /\ RefIdle /\ WorkIdle /\ LockIdle /\ DrvIdle

\* A function definition outside any inactive #if block is compiled.
CompileDefinition ==
    /\ pos \in 1..Len(Items)
    /\ Items[pos].kind = "def"
    /\ GuardActive(Items[pos].guard, cfg)
    /\ defined' = defined \cup {Items[pos].name}
    /\ pos' = pos + 1
    /\ UNCHANGED <<cfg, exported, qvars, evars, rvars, wvars, lvars, dvars>>

\* An EXPORT_SYMBOL_GPL line outside any inactive #if block registers its symbol.
CompileExport ==
    /\ pos \in 1..Len(Items)
    /\ Items[pos].kind = "export"
    /\ GuardActive(Items[pos].guard, cfg)
    /\ exported' = exported \cup {Items[pos].name}
    /\ pos' = pos + 1
    /\ UNCHANGED <<cfg, defined, qvars, evars, rvars, wvars, lvars, dvars>>

\* An item inside an inactive #if block is dropped by the preprocessor.
SkipInactive ==
    /\ pos \in 1..Len(Items)
    /\ ~GuardActive(Items[pos].guard, cfg)
    /\ pos' = pos + 1
    /\ UNCHANGED <<cfg, defined, exported, qvars, evars, rvars, wvars, lvars, dvars>>

NextBuild == CompileDefinition \/ CompileExport \/ SkipInactive

SpecBuild == InitBuild /\ [][NextBuild]_vars

BuildDone == pos = Len(Items) + 1

\* C2: every wrapper the build compiles is registered with EXPORT_SYMBOL_GPL, so at
\* the end of the build the set of defined wrappers equals the set of exported ones.
C2_DefinedEqualsExported == BuildDone => defined = exported

\* C3: at the end of the build the four 64-bit MMIO wrappers are exported exactly
\* when CONFIG_64BIT is set, rust_helper_folio_alloc exactly when CONFIG_NUMA is
\* not set, and every other wrapper under every configuration.
ConditionalOn64 == {"readq", "writeq", "readq_relaxed", "writeq_relaxed"}

C3_ExportedIffConfigured ==
    BuildDone =>
        /\ \A w \in ConditionalOn64 : w \in exported <=> cfg.B64
        /\ "folio_alloc" \in exported <=> ~cfg.NUMA
        /\ \A w \in AllWrappers \ (ConditionalOn64 \cup {"folio_alloc"}) : w \in exported

(***************************************************************************)
(* The kernel side of a call.  A primitive receives each argument          *)
(* converted to the type of its own parameter, and hands back a value of   *)
(* its own return type.  The primitives take and return the types the      *)
(* wrappers declare, except mdelay (unsigned long), the count of           *)
(* memcpy_fromio (size_t) and the result of pci_resource_start             *)
(* (resource_size_t).                                                      *)
(***************************************************************************)
PrimParamType(prim, i, t) ==
    CASE prim = "mdelay" /\ i = 1 -> "unsigned long"
      [] prim = "memcpy_fromio" /\ i = 3 -> "size_t"
      [] OTHER -> t

PrimRetType(prim, rt) ==
    CASE prim = "pci_resource_start" -> "resource_size_t"
      [] OTHER -> rt

\* What the kernel sees of operation o: the primitive and the arguments as received.
Deliver(c, o) ==
    [op |-> o.op, prim |-> o.prim,
     args |-> [i \in 1..Len(o.args) |->
                 LET a == o.args[i]
                     pt == PrimParamType(o.prim, i, a.t)
                 IN  [t |-> pt, v |-> Conv(a.v, a.t, pt, c), f |-> a.f]]]

DeliverAll(c, body) == [i \in 1..Len(body) |-> Deliver(c, body[i])]

\* The primitive a wrapper stands for, called directly with the typed arguments a:
\* the primitive of the wrapper's name with the same argument list, but for the
\* request reference helpers (atomic operations on req->ref), the request free
\* helper, the current-task macro, the two-branch spinlock initialiser and the
\* five-step work initialiser.
WrappedPrimitive(w, c, a) ==
    CASE w = "req_ref_inc_not_zero" ->
           <<Call("atomic_inc_not_zero", <<Member("atomic_t *", a[1].v, "ref")>>, "bool")>>
      [] w = "req_ref_put_and_test" ->
           <<Call("atomic_dec_and_test", <<Member("atomic_t *", a[1].v, "ref")>>, "bool")>>
      [] w = "blk_mq_free_request_internal" ->
           <<Call("__blk_mq_free_request", a, "void")>>
      [] w = "get_current" ->
           <<Call("current", a, "struct task_struct *")>>
      [] w = "__spin_lock_init" ->
           IF c.DEBUG_SPINLOCK
           THEN <<Call("__raw_spin_lock_init",
                       <<Member("raw_spinlock_t *", a[1].v, "rlock"), a[2], a[3],
                         Sym("int", "LD_WAIT_CONFIG")>>, "void")>>
           ELSE <<Call("spin_lock_init", <<a[1]>>, "void")>>
      [] w = "init_work_with_key" ->
           << Call("__init_work", <<a[1], a[3]>>, "void"),
              Store("data", a[1], Sym("atomic_long_t", "WORK_DATA_INIT")),
              Call("lockdep_init_map",
                   <<Member("struct lockdep_map *", a[1].v, "lockdep_map"), a[4], a[5],
                     Sym("int", "0")>>, "void"),
              Call("INIT_LIST_HEAD",
                   <<Member("struct list_head *", a[1].v, "entry")>>, "void"),
              Store("func", a[1], a[2]) >>
      [] OTHER ->
           <<Call(w, a, PrimRetType(w, Returns(w)))>>

(***************************************************************************)
(* Equivalence of a wrapper call and a direct call of the primitive.  The  *)
(* same calls are made twice, through the wrappers (wlog, wret) and        *)
(* directly (dlog, dret); the kernel state is the log of what the          *)
(* primitives were asked to do.                                            *)
(***************************************************************************)
MaxCalls == 1

\* The argument values tried for a parameter of type t.
Samples(t, c) ==
    CASE t = "uint64_t" -> {FromInt(3, 64), [i \in 1..NLimbs |-> IF i \in {1, 3} THEN 1 ELSE 0]}
      [] t = "long" -> {FromInt(8, BitsPerLong(c)), FromInt(-1, BitsPerLong(c))}
      [] t = "int" -> {FromInt(2, 32), FromInt(-2, 32)}
      [] t = "bool" -> {FromInt(1, 8)}
      [] OTHER -> {FromInt(200, Width(t, c))}

\* The values a primitive of return type t is taken to hand back.
RetSamples(t, c) ==
    CASE t = "void" -> {Zero}
      [] t \in {"resource_size_t", "bool", "long"} ->
           {FromInt(1, Width(t, c)), FromInt(-1, Width(t, c))}
      [] OTHER -> {FromInt(-1, Width(t, c))}

ArgTuples(ps, c) ==
    {a \in [1..Len(ps) -> UNION {Samples(ps[i], c) : i \in 1..Len(ps)}] :
        \A i \in 1..Len(ps) : a[i] \in Samples(ps[i], c)}

TypedArgs(ps, a) == [i \in 1..Len(ps) |-> Arg(ps[i], a[i])]

\* Whether wrapper w is compiled under configuration c.
Compiled(w, c) == w \in DefinedSymbols(c)

InitEquiv ==
    /\ cfg \in Configs
    /\ wlog = <<>> /\ dlog = <<>>
    /\ wret = [t |-> "void", v |-> Zero]
    /\ dret = [t |-> "void", v |-> Zero]
    /\ sent = [w |-> "", args |-> <<>>, got |-> <<>>]
    /\ BuildIdle /\ ErrIdle /\ RefIdle /\ WorkIdle /\ LockIdle /\ DrvIdle

\* One call of wrapper w with argument values a, beside the same call made directly.
Invoke(w, a) ==
    LET ta == TypedArgs(Params(w), a)
        body == Shim(w, cfg, a)
        direct == WrappedPrimitive(w, cfg, ta)
        wl == body[Len(body)]
        dl == direct[Len(direct)]
        prt == PrimRetType(wl.prim, wl.rt)
    IN  \E rv \in RetSamples(prt, cfg) :
           /\ wlog' = wlog \o DeliverAll(cfg, body)
           /\ dlog' = dlog \o DeliverAll(cfg, direct)
           /\ wret' = [t |-> wl.rt, v |-> Conv(rv, prt, wl.rt, cfg)]
           /\ dret' = [t |-> dl.rt, v |-> rv]
           /\ sent' = [w |-> w, args |-> ta, got |-> DeliverAll(cfg, body)]

CallWrapper ==
    /\ Len(wlog) < MaxCalls
    /\ \E w \in AllWrappers :
          /\ Compiled(w, cfg)
          /\ \E a \in ArgTuples(Params(w), cfg) : Invoke(w, a)
    /\ UNCHANGED <<cfg, bvars, evars, rvars, wvars, lvars, dvars>>

NextEquiv == CallWrapper

SpecEquiv == InitEquiv /\ [][NextEquiv]_vars

\* C1: after any sequence of wrapper calls the kernel has been asked to do exactly
\* what the same sequence of direct primitive calls asks of it, and the last wrapper
\* call returned the number the direct call returned.
C1_WrapperEquivalent ==
    /\ wlog = dlog
    /\ SameNumber(wret.v, wret.t, dret.v, dret.t, cfg)

\* A state in which C1's case happens: a call was made through a wrapper, here a
\* request reference increment that came back true.
C1_Witness ==
    /\ Len(wlog) >= 1
    /\ sent.w = "req_ref_inc_not_zero"
    /\ wret.v = FromInt(1, 8)

\* C9: every scalar argument reaches the primitive as the number the caller passed.
\* Stated for the wrappers that forward their parameter list position by position.
C9_ArgumentsArriveUnchanged ==
    (sent.w # "" /\ Len(sent.got) = 1 /\ Len(sent.got[1].args) = Len(sent.args)) =>
        \A i \in 1..Len(sent.args) :
            LET a == sent.args[i]
                g == sent.got[1].args[i]
            IN  g.f = "" => SameNumber(a.v, a.t, g.v, g.t, cfg)

(***************************************************************************)
(* Error pointers.  The kernel's encoding: ERR_PTR casts the error code to *)
(* a pointer, IS_ERR tests whether the pointer lies in the last MAX_ERRNO  *)
(* addresses, PTR_ERR casts the pointer back to a long.                    *)
(***************************************************************************)
MAX_ERRNO == 4095

True8 == FromInt(1, 8)
False8 == FromInt(0, 8)

ERR_PTR(error, c) == Conv(error, "long", "void *", c)

IS_ERR_VALUE(x, c) == UGe(x, FromInt(-MAX_ERRNO, BitsPerLong(c)))

IS_ERR(ptr, c) == IS_ERR_VALUE(Conv(ptr, "const void *", "unsigned long", c), c)

IS_ERR_OR_NULL(ptr, c) == ptr = Zero \/ IS_ERR(ptr, c)

PTR_ERR(ptr, c) == Conv(ptr, "const void *", "long", c)

\* The value an error-pointer primitive hands back for delivered operation e.
ErrPrimitive(e, c) ==
    CASE e.prim = "ERR_PTR" -> ERR_PTR(e.args[1].v, c)
      [] e.prim = "IS_ERR" -> IF IS_ERR(e.args[1].v, c) THEN True8 ELSE False8
      [] e.prim = "IS_ERR_OR_NULL" -> IF IS_ERR_OR_NULL(e.args[1].v, c) THEN True8 ELSE False8
      [] e.prim = "PTR_ERR" -> PTR_ERR(e.args[1].v, c)

\* The value a one-call wrapper body returns when its primitive hands back rv.
Returned(o, rv, c) == Conv(rv, PrimRetType(o.prim, o.rt), o.rt, c)

\* The value wrapper body returns on the error-pointer primitives.
ErrCall(body, c) == Returned(body[1], ErrPrimitive(Deliver(c, body[1]), c), c)

\* The codes tried: every error code, and 0 and -(MAX_ERRNO + 1), which are none.
ErrCodes == (0 - (MAX_ERRNO + 1))..0

Representable(e) == e \in (0 - MAX_ERRNO)..(0 - 1)

\* The pointers tried: every combination of limbs at the edges of the error range.
EdgeLimbs == {0, 1, LimbBase - MAX_ERRNO - 1, LimbBase - MAX_ERRNO, LimbBase - 1}

PointerSamples(c) ==
    {Trunc(p, BitsPerLong(c)) : p \in [1..NLimbs -> EdgeLimbs]}

InitErr ==
    /\ cfg \in Configs
    /\ e_phase = "idle" /\ e_code = 0 /\ e_ptr = Zero /\ e_is = FALSE /\ e_dec = Zero
    /\ BuildIdle /\ EquivIdle /\ RefIdle /\ WorkIdle /\ LockIdle /\ DrvIdle

\* rust_helper_ERR_PTR(err)
Call_ERR_PTR ==
    /\ e_phase = "idle"
    /\ \E e \in ErrCodes :
          /\ e_code' = e
          /\ e_ptr' = ErrCall(rust_helper_ERR_PTR(FromInt(e, BitsPerLong(cfg))), cfg)
    /\ e_phase' = "encoded"
    /\ UNCHANGED <<cfg, e_is, e_dec, bvars, qvars, rvars, wvars, lvars, dvars>>

\* A pointer that comes from elsewhere: NULL, a valid address, or any other value.
TakePointer ==
    /\ e_phase = "idle"
    /\ \E p \in PointerSamples(cfg) : e_ptr' = p
    /\ e_phase' = "taken"
    /\ UNCHANGED <<cfg, e_code, e_is, e_dec, bvars, qvars, rvars, wvars, lvars, dvars>>

\* rust_helper_IS_ERR(ptr)
Call_IS_ERR ==
    /\ e_phase \in {"encoded", "taken"}
    /\ e_is' = (ErrCall(rust_helper_IS_ERR(e_ptr), cfg) # False8)
    /\ e_phase' = IF e_phase = "encoded" THEN "encoded_classified" ELSE "taken_classified"
    /\ UNCHANGED <<cfg, e_code, e_ptr, e_dec, bvars, qvars, rvars, wvars, lvars, dvars>>

\* rust_helper_PTR_ERR(ptr), on a pointer rust_helper_IS_ERR reported as an error
Call_PTR_ERR ==
    /\ e_phase \in {"encoded_classified", "taken_classified"}
    /\ e_is
    /\ e_dec' = ErrCall(rust_helper_PTR_ERR(e_ptr), cfg)
    /\ e_phase' = IF e_phase = "encoded_classified" THEN "encoded_decoded" ELSE "taken_decoded"
    /\ UNCHANGED <<cfg, e_code, e_ptr, e_is, bvars, qvars, rvars, wvars, lvars, dvars>>

NextErr == Call_ERR_PTR \/ TakePointer \/ Call_IS_ERR \/ Call_PTR_ERR

SpecErr == InitErr /\ [][NextErr]_vars

\* The pointers that carry an error code: p is the pattern of -e for an e in
\* 1..MAX_ERRNO, and the low limb of p leaves one candidate for e.
ErrorTagged(p, c) ==
    LET e == LimbBase - p[1]
    IN  e \in 1..MAX_ERRNO /\ p = FromInt(0 - e, BitsPerLong(c))

\* C4: for every error code e (-MAX_ERRNO..-1), rust_helper_IS_ERR is true of
\* rust_helper_ERR_PTR(e) and rust_helper_PTR_ERR gives e back; and rust_helper_IS_ERR
\* is false of every pointer that is not error-tagged, NULL included.
C4_ErrPtrRoundTrip ==
    /\ (e_phase \in {"encoded_classified", "encoded_decoded"} /\ Representable(e_code))
          => e_is
    /\ (e_phase = "encoded_decoded" /\ Representable(e_code))
          => e_dec = FromInt(e_code, BitsPerLong(cfg))
    /\ (e_phase \in {"encoded_classified", "taken_classified"} /\ ~ErrorTagged(e_ptr, cfg))
          => ~e_is

\* A state in which C4's case happens: the code -MAX_ERRNO went through encode,
\* classify and decode.
C4_Witness ==
    /\ e_phase = "encoded_decoded"
    /\ e_code = 0 - MAX_ERRNO
    /\ e_is

(***************************************************************************)
(* Reference counts.  The kernel's primitives, each one atomic operation   *)
(* on the counter: the two atomic_t operations the request helpers use,    *)
(* and the refcount_t operations, which saturate the counter instead of    *)
(* counting up from 0 or down below 0.                                     *)
(***************************************************************************)
REFCOUNT_SATURATED == -1073741824

atomic_inc_not_zero(v) ==
    IF v = 0 THEN [v |-> v, ret |-> FALSE] ELSE [v |-> v + 1, ret |-> TRUE]

atomic_inc_return(v) == [v |-> v + 1, ret |-> v + 1 # 0]

atomic_dec_and_test(v) == [v |-> v - 1, ret |-> v - 1 = 0]

refcount_inc(v) ==
    IF v = 0 \/ v < 0 \/ v + 1 < 0
    THEN [v |-> REFCOUNT_SATURATED, ret |-> FALSE]
    ELSE [v |-> v + 1, ret |-> FALSE]

refcount_dec_and_test(v) ==
    IF v = 1 THEN [v |-> 0, ret |-> TRUE]
    ELSE IF v < 0 \/ v - 1 < 0 THEN [v |-> REFCOUNT_SATURATED, ret |-> FALSE]
    ELSE [v |-> v - 1, ret |-> FALSE]

refcount_dec_not_one(v) ==
    IF v = 1 THEN [v |-> v, ret |-> FALSE] ELSE [v |-> v - 1, ret |-> TRUE]

\* The counter after, and the result of, delivered operation e on a counter at v.
RefPrimitive(e, v) ==
    CASE e.prim = "atomic_inc_not_zero" -> atomic_inc_not_zero(v)
      [] e.prim = "atomic_inc_return" -> atomic_inc_return(v)
      [] e.prim = "atomic_dec_and_test" -> atomic_dec_and_test(v)
      [] e.prim = "refcount_inc" -> refcount_inc(v)
      [] e.prim = "refcount_dec_and_test" -> refcount_dec_and_test(v)
      [] e.prim = "refcount_dec_not_one" -> refcount_dec_not_one(v)

\* A wrapper body run on a counter at v: the counter after, and what the caller
\* gets back (FALSE from a wrapper that returns nothing).
RefCall(body, v, c) ==
    LET r == RefPrimitive(Deliver(c, body[1]), v)
        rv == IF r.ret THEN True8 ELSE False8
    IN  [v |-> r.v,
         ret |-> body[1].rt # "void" /\ Returned(body[1], rv, c) # False8]

NThreads == 2
Rounds == 2
MaxInit == 2

Threads == 1..NThreads

\* The one request and the one refcount_t the threads share.
TheObject == FromInt(4096, 32)

\* The counter the run is about: the refcount_t or the request's ref.
Counter == IF rc_init.pair = "refcount" THEN refs ELSE req_ref

ThreadsDone == \A t \in Threads : rc_thr[t].incs = Rounds /\ rc_thr[t].held = 0

InitRef ==
    /\ cfg \in Configs
    /\ rc_init \in [pair : {"refcount", "req_ref"}, c0 : 0..MaxInit]
    /\ refs = rc_init.c0
    /\ req_ref = rc_init.c0
    /\ rc_thr = [t \in Threads |-> [incs |-> 0, held |-> 0]]
    /\ rc_hist = [incs |-> 0, decs |-> 0, trues |-> 0, drops |-> 0]
    /\ rc_last = [w |-> "", before |-> 0, after |-> 0, ret |-> FALSE]
    /\ BuildIdle /\ EquivIdle /\ ErrIdle /\ WorkIdle /\ LockIdle /\ DrvIdle

RefUnchanged == UNCHANGED <<cfg, rc_init, bvars, qvars, evars, wvars, lvars, dvars>>

\* A thread calls rust_helper_refcount_inc(r); the call is one primitive operation.
Thread_refcount_inc(t) ==
    LET body == rust_helper_refcount_inc(TheObject)
        r == RefCall(body, refs, cfg)
    IN  /\ rc_init.pair = "refcount"
        /\ rc_thr[t].incs < Rounds
        /\ Len(body) = 1
        /\ refs' = r.v
        /\ rc_thr' = [rc_thr EXCEPT ![t] = [incs |-> @.incs + 1, held |-> @.held + 1]]
        /\ rc_hist' = [rc_hist EXCEPT !.incs = @ + 1]
        /\ rc_last' = [w |-> "refcount_inc", before |-> refs, after |-> r.v, ret |-> r.ret]
        /\ UNCHANGED req_ref
        /\ RefUnchanged

\* A thread that holds a reference calls rust_helper_refcount_dec_and_test(r).
Thread_refcount_dec_and_test(t) ==
    LET body == rust_helper_refcount_dec_and_test(TheObject)
        r == RefCall(body, refs, cfg)
    IN  /\ rc_init.pair = "refcount"
        /\ rc_thr[t].held > 0
        /\ Len(body) = 1
        /\ refs' = r.v
        /\ rc_thr' = [rc_thr EXCEPT ![t].held = @ - 1]
        /\ rc_hist' = [rc_hist EXCEPT !.decs = @ + 1,
                                      !.trues = IF r.ret THEN @ + 1 ELSE @]
        /\ rc_last' = [w |-> "refcount_dec_and_test", before |-> refs, after |-> r.v,
                       ret |-> r.ret]
        /\ UNCHANGED req_ref
        /\ RefUnchanged

\* A thread calls rust_helper_req_ref_inc_not_zero(req) and holds a reference if
\* the call says so.
Thread_req_ref_inc_not_zero(t) ==
    LET body == rust_helper_req_ref_inc_not_zero(TheObject)
        r == RefCall(body, req_ref, cfg)
    IN  /\ rc_init.pair = "req_ref"
        /\ rc_thr[t].incs < Rounds
        /\ Len(body) = 1
        /\ req_ref' = r.v
        /\ rc_thr' = [rc_thr EXCEPT ![t] = [incs |-> @.incs + 1,
                                            held |-> IF r.ret THEN @.held + 1 ELSE @.held]]
        /\ rc_hist' = [rc_hist EXCEPT !.incs = IF r.ret THEN @ + 1 ELSE @]
        /\ rc_last' = [w |-> "req_ref_inc_not_zero", before |-> req_ref, after |-> r.v,
                       ret |-> r.ret]
        /\ UNCHANGED refs
        /\ RefUnchanged

\* A thread that holds a reference calls rust_helper_req_ref_put_and_test(req).
Thread_req_ref_put_and_test(t) ==
    LET body == rust_helper_req_ref_put_and_test(TheObject)
        r == RefCall(body, req_ref, cfg)
    IN  /\ rc_init.pair = "req_ref"
        /\ rc_thr[t].held > 0
        /\ Len(body) = 1
        /\ req_ref' = r.v
        /\ rc_thr' = [rc_thr EXCEPT ![t].held = @ - 1]
        /\ rc_hist' = [rc_hist EXCEPT !.decs = @ + 1,
                                      !.trues = IF r.ret THEN @ + 1 ELSE @]
        /\ rc_last' = [w |-> "req_ref_put_and_test", before |-> req_ref, after |-> r.v,
                       ret |-> r.ret]
        /\ UNCHANGED refs
        /\ RefUnchanged

\* The owner drops one of the initial references of the refcount_t, once the
\* threads, which count on them, are done.
Owner_refcount_dec_and_test ==
    LET body == rust_helper_refcount_dec_and_test(TheObject)
        r == RefCall(body, refs, cfg)
    IN  /\ rc_init.pair = "refcount"
        /\ ThreadsDone
        /\ rc_hist.drops < rc_init.c0
        /\ Len(body) = 1
        /\ refs' = r.v
        /\ rc_hist' = [rc_hist EXCEPT !.decs = @ + 1, !.drops = @ + 1,
                                      !.trues = IF r.ret THEN @ + 1 ELSE @]
        /\ rc_last' = [w |-> "refcount_dec_and_test", before |-> refs, after |-> r.v,
                       ret |-> r.ret]
        /\ UNCHANGED <<req_ref, rc_thr>>
        /\ RefUnchanged

\* The owner drops one of the initial references of the request, at any time: the
\* threads take theirs with the increment that fails on 0.
Owner_req_ref_put_and_test ==
    LET body == rust_helper_req_ref_put_and_test(TheObject)
        r == RefCall(body, req_ref, cfg)
    IN  /\ rc_init.pair = "req_ref"
        /\ rc_hist.drops < rc_init.c0
        /\ Len(body) = 1
        /\ req_ref' = r.v
        /\ rc_hist' = [rc_hist EXCEPT !.decs = @ + 1, !.drops = @ + 1,
                                      !.trues = IF r.ret THEN @ + 1 ELSE @]
        /\ rc_last' = [w |-> "req_ref_put_and_test", before |-> req_ref, after |-> r.v,
                       ret |-> r.ret]
        /\ UNCHANGED <<refs, rc_thr>>
        /\ RefUnchanged

NextRef ==
    \/ \E t \in Threads : Thread_refcount_inc(t)
    \/ \E t \in Threads : Thread_refcount_dec_and_test(t)
    \/ \E t \in Threads : Thread_req_ref_inc_not_zero(t)
    \/ \E t \in Threads : Thread_req_ref_put_and_test(t)
    \/ Owner_refcount_dec_and_test
    \/ Owner_req_ref_put_and_test

SpecRef == InitRef /\ [][NextRef]_vars

\* C5: a call of rust_helper_req_ref_inc_not_zero on a count of 0 returns false and
\* leaves the count at 0; on a count >= 1 it returns true and the count is one more.
\* The call is one step of the run, so whatever put_and_test calls run beside it,
\* it sees the count before or after each of them and never raises a count from 0.
C5_IncNotZero ==
    rc_last.w = "req_ref_inc_not_zero" =>
        /\ req_ref = rc_last.after
        /\ rc_last.before = 0 => (~rc_last.ret /\ rc_last.after = 0)
        /\ rc_last.before >= 1 => (rc_last.ret /\ rc_last.after = rc_last.before + 1)

\* A state in which C5's case happens: the request started with a reference, a
\* put_and_test took the count to 0, and an increment that came after it failed.
C5_Witness ==
    /\ rc_last.w = "req_ref_inc_not_zero"
    /\ rc_init.c0 >= 1
    /\ rc_hist.trues = 1
    /\ rc_last.before = 0
    /\ ~rc_last.ret

\* C6 as stated: when the N threads have each made their M increments and M
\* decrements the count is 0, and exactly one decrement-and-test call returned true.
C6_FinalCountZero ==
    ThreadsDone => (Counter = 0 /\ rc_hist.trues = 1)

AllDone == ThreadsDone /\ rc_hist.drops = rc_init.c0

\* C6 as amended: on a count that starts with c0 >= 1 references no update is lost
\* (the count is c0 plus the increments made minus the decrements made), so when the
\* threads are done and the initial references are still held the count is c0, not
\* 0; the count is 0 once the initial references are dropped as well, and
\* decrement-and-test returned true for exactly the one call that brought it to 0.
\* On a count that starts at 0 rust_helper_req_ref_inc_not_zero never increments
\* and rust_helper_refcount_inc saturates the counter.
C6_NoLostUpdate ==
    /\ rc_init.c0 >= 1 =>
          /\ Counter = rc_init.c0 + rc_hist.incs - rc_hist.decs
          /\ (ThreadsDone /\ rc_hist.drops = 0) => Counter = rc_init.c0
          /\ AllDone => Counter = 0
          /\ rc_hist.trues = (IF Counter = 0 THEN 1 ELSE 0)
    /\ (rc_init.c0 = 0 /\ rc_init.pair = "req_ref") =>
          (Counter = 0 /\ rc_hist.incs = 0 /\ rc_hist.trues = 0)
    /\ (rc_init.c0 = 0 /\ rc_init.pair = "refcount" /\ rc_last.w # "") =>
          (Counter = REFCOUNT_SATURATED /\ rc_hist.trues = 0)

\* A state in which C6's case happens: both threads made all their increments and
\* decrements on a count that started at 2, the owner dropped the two initial
\* references, and the last drop returned true.
C6_Witness ==
    /\ rc_init.c0 = 2
    /\ AllDone
    /\ rc_hist.incs = NThreads * Rounds
    /\ rc_last.ret
    /\ Counter = 0

(***************************************************************************)
(* Work items.  A struct work_struct: the scheduling-state word data, the  *)
(* linkage node entry, the callback func, the lockdep map and the debug-   *)
(* object state.  The workqueue that later takes the item sets the pending *)
(* state, links the node, and a worker unlinks it and calls func.          *)
(***************************************************************************)
\* The address of member f of the object at v.
Addr(v, f) == [v |-> v, f |-> f]

\* The work item after delivered operation e.
WorkStep(e, w) ==
    CASE e.op = "call" /\ e.prim = "__init_work" ->
           [w EXCEPT !.dbg = IF e.args[2].v # False8 THEN "init_on_stack" ELSE "init"]
      [] e.op = "store" /\ e.prim = "data" ->
           [w EXCEPT !.data = e.args[2].f]
      [] e.op = "call" /\ e.prim = "lockdep_init_map" ->
           [w EXCEPT !.lockdep = [name |-> e.args[2].v, key |-> e.args[3].v]]
      [] e.op = "call" /\ e.prim = "INIT_LIST_HEAD" ->
           [w EXCEPT !.entry = [next |-> Addr(e.args[1].v, e.args[1].f),
                                prev |-> Addr(e.args[1].v, e.args[1].f)]]
      [] e.op = "store" /\ e.prim = "func" ->
           [w EXCEPT !.func = e.args[2].v]

\* The work item after the delivered operations es, first to last.
RECURSIVE WorkSteps(_, _)
WorkSteps(es, w) ==
    IF es = <<>> THEN w ELSE WorkSteps(Tail(es), WorkStep(Head(es), w))

MaxRuns == 2

TheWork == FromInt(4096, 32)
ListHead == Addr(FromInt(8192, 32), "worklist")
WorkFuncs == {FromInt(100, 32), FromInt(200, 32)}
WorkNames == {FromInt(300, 32)}
WorkKeys == {FromInt(400, 32)}

\* What the memory of a work item may hold before it is initialised.
WorkGarbage ==
    [data : {"WORK_DATA_INIT", "PENDING"},
     entry : {[next |-> ListHead, prev |-> ListHead],
              [next |-> Addr(TheWork, "entry"), prev |-> ListHead]},
     func : WorkFuncs \cup {Zero},
     lockdep : {[name |-> Zero, key |-> Zero]},
     dbg : {"none"}]

InitWork ==
    /\ cfg \in Configs
    /\ witem \in WorkGarbage
    /\ wk_pc = 0
    /\ wk_args = [func |-> Zero, onstack |-> False8, name |-> Zero, key |-> Zero,
                  prior |-> witem]
    /\ wk_trace = <<>>
    /\ wq = [pending |-> <<>>, ran |-> <<>>, queued |-> 0]
    /\ BuildIdle /\ EquivIdle /\ ErrIdle /\ RefIdle /\ LockIdle /\ DrvIdle

\* rust_helper_init_work_with_key(work, func, onstack, name, key): its sub-steps,
\* in the order of the body.
Call_init_work_with_key ==
    /\ wk_pc = 0
    /\ \E func \in WorkFuncs, onstack \in {True8, False8}, name \in WorkNames,
          key \in WorkKeys :
          LET es == DeliverAll(cfg,
                      rust_helper_init_work_with_key(TheWork, func, onstack, name, key))
          IN  /\ witem' = WorkSteps(es, witem)
              /\ wk_trace' = [i \in 1..Len(es) |-> es[i].prim]
              /\ wk_args' = [func |-> func, onstack |-> onstack, name |-> name,
                             key |-> key, prior |-> witem]
    /\ wk_pc' = 1
    /\ UNCHANGED <<cfg, wq, bvars, qvars, evars, rvars, lvars, dvars>>

\* queue_work on the initialised item: an item whose state word is the initial one
\* becomes pending and its node is linked into the worklist.
QueueWork ==
    /\ wk_pc = 1
    /\ wq.queued < MaxRuns
    /\ witem.data = "WORK_DATA_INIT"
    /\ witem.entry.next = Addr(TheWork, "entry")
    /\ witem' = [witem EXCEPT !.data = "PENDING",
                              !.entry = [next |-> ListHead, prev |-> ListHead]]
    /\ wq' = [wq EXCEPT !.pending = Append(@, TheWork), !.queued = @ + 1]
    /\ UNCHANGED <<cfg, wk_pc, wk_args, wk_trace, bvars, qvars, evars, rvars, lvars, dvars>>

\* A worker takes the item off the worklist, clears its pending state and calls
\* its callback.
RunWork ==
    /\ wq.pending # <<>>
    /\ witem' = [witem EXCEPT !.data = "WORK_DATA_INIT",
                              !.entry = [next |-> Addr(TheWork, "entry"),
                                         prev |-> Addr(TheWork, "entry")]]
    /\ wq' = [wq EXCEPT !.pending = Tail(@), !.ran = Append(@, witem.func)]
    /\ UNCHANGED <<cfg, wk_pc, wk_args, wk_trace, bvars, qvars, evars, rvars, lvars, dvars>>

NextWork == Call_init_work_with_key \/ QueueWork \/ RunWork

SpecWork == InitWork /\ [][NextWork]_vars

\* C7: rust_helper_init_work_with_key performs __init_work, the store of
\* WORK_DATA_INIT to data, lockdep_init_map, INIT_LIST_HEAD and the store of func,
\* in this order; whatever the item held before, when it returns func is the
\* supplied callback, the node points to itself and data is the initial value; and
\* every later execution of the item calls the supplied callback, once per queueing.
C7_InitWorkOrderAndResult ==
    wk_pc = 1 =>
        /\ wk_trace = <<"__init_work", "data", "lockdep_init_map", "INIT_LIST_HEAD", "func">>
        /\ witem.func = wk_args.func
        /\ wq.queued = 0 =>
              /\ witem.entry = [next |-> Addr(TheWork, "entry"),
                                prev |-> Addr(TheWork, "entry")]
              /\ witem.data = "WORK_DATA_INIT"
        /\ \A i \in 1..Len(wq.ran) : wq.ran[i] = wk_args.func
        /\ Len(wq.ran) + Len(wq.pending) = wq.queued
        /\ Len(wq.pending) <= 1

\* A state in which C7's case happens: an item that held a pending state word, a
\* linked node and another callback was initialised, queued once and run once.
C7_Witness ==
    /\ wk_pc = 1
    /\ wk_args.prior.data = "PENDING"
    /\ wk_args.prior.entry.next = ListHead
    /\ wk_args.prior.func # wk_args.func
    /\ wk_args.prior.func # Zero
    /\ wq.queued = 1
    /\ wq.ran = <<wk_args.func>>

(***************************************************************************)
(* Spinlocks.  A spinlock_t: the lock word, and the name and lock-class    *)
(* key the debug build records.  spin_lock waits until the lock word is    *)
(* free and takes it in one atomic step; spin_unlock frees it.             *)
(***************************************************************************)
\* The spinlock after delivered operation e.
LockStep(e, l) ==
    CASE e.prim = "__raw_spin_lock_init" ->
           [locked |-> FALSE, name |-> e.args[2].v, key |-> e.args[3].v]
      [] e.prim = "spin_lock_init" ->
           [locked |-> FALSE, name |-> Zero, key |-> Zero]
      [] e.prim = "spin_lock" -> [l EXCEPT !.locked = TRUE]
      [] e.prim = "spin_unlock" -> [l EXCEPT !.locked = FALSE]

\* Whether delivered operation e can proceed on spinlock l: spin_lock spins while
\* the lock word is taken.
LockReady(e, l) == e.prim = "spin_lock" => ~l.locked

NLockThreads == 2

LockThreads == 1..NLockThreads

TheLock == FromInt(4096, 32)
LockNames == {FromInt(300, 32), FromInt(301, 32)}
LockKeys == {FromInt(400, 32)}

\* What the memory of a spinlock may hold before it is initialised.
LockGarbage == [locked : BOOLEAN, name : {Zero, FromInt(999, 32)}, key : {Zero}]

InitLock ==
    /\ cfg \in Configs
    /\ spin \in LockGarbage
    /\ lk_args = [done |-> FALSE, name |-> Zero, key |-> Zero, prior |-> spin]
    /\ lk_thr = [t \in LockThreads |-> "out"]
    /\ BuildIdle /\ EquivIdle /\ ErrIdle /\ RefIdle /\ WorkIdle /\ DrvIdle

\* rust_helper___spin_lock_init(lock, name, key)
Call___spin_lock_init ==
    /\ ~lk_args.done
    /\ \E name \in LockNames, key \in LockKeys :
          LET es == DeliverAll(cfg, rust_helper___spin_lock_init(cfg, TheLock, name, key))
          IN  /\ Len(es) = 1
              /\ spin' = LockStep(es[1], spin)
              /\ lk_args' = [done |-> TRUE, name |-> name, key |-> key, prior |-> spin]
    /\ UNCHANGED <<cfg, lk_thr, bvars, qvars, evars, rvars, wvars, dvars>>

\* rust_helper_spin_lock(lock), by a thread that does not hold the lock
Call_spin_lock(t) ==
    LET es == DeliverAll(cfg, rust_helper_spin_lock(TheLock))
    IN  /\ lk_args.done
        /\ lk_thr[t] = "out"
        /\ Len(es) = 1
        /\ LockReady(es[1], spin)
        /\ spin' = LockStep(es[1], spin)
        /\ lk_thr' = [lk_thr EXCEPT ![t] = "in"]
        /\ UNCHANGED <<cfg, lk_args, bvars, qvars, evars, rvars, wvars, dvars>>

\* rust_helper_spin_unlock(lock), by the thread that holds the lock
Call_spin_unlock(t) ==
    LET es == DeliverAll(cfg, rust_helper_spin_unlock(TheLock))
    IN  /\ lk_args.done
        /\ lk_thr[t] = "in"
        /\ Len(es) = 1
        /\ LockReady(es[1], spin)
        /\ spin' = LockStep(es[1], spin)
        /\ lk_thr' = [lk_thr EXCEPT ![t] = "out"]
        /\ UNCHANGED <<cfg, lk_args, bvars, qvars, evars, rvars, wvars, dvars>>

NextLock ==
    \/ Call___spin_lock_init
    \/ \E t \in LockThreads : Call_spin_lock(t)
    \/ \E t \in LockThreads : Call_spin_unlock(t)

SpecLock == InitLock /\ [][NextLock]_vars

Holders == {t \in LockThreads : lk_thr[t] = "in"}

\* C8: once rust_helper___spin_lock_init has run, the lock carries the supplied name
\* and key under CONFIG_DEBUG_SPINLOCK and neither of them without it; in both
\* configurations at most one thread holds the lock at a time, and the lock word is
\* free whenever no thread holds it, so a rust_helper_spin_lock on the unheld lock
\* acquires it.
C8_SpinLockInit ==
    lk_args.done =>
        /\ cfg.DEBUG_SPINLOCK => (spin.name = lk_args.name /\ spin.key = lk_args.key)
        /\ ~cfg.DEBUG_SPINLOCK => (spin.name # lk_args.name /\ spin.key # lk_args.key)
        /\ Cardinality(Holders) <= 1
        /\ spin.locked <=> Holders # {}

\* A state in which C8's case happens: a lock whose memory held a taken lock word
\* was initialised in the debug configuration, and the second thread holds it.
C8_Witness ==
    /\ lk_args.done
    /\ cfg.DEBUG_SPINLOCK
    /\ lk_args.prior.locked
    /\ spin.name = lk_args.name
    /\ Holders = {2}

(***************************************************************************)
(* Driver data.  Every struct device has one driver_data pointer; a PCI    *)
(* device embeds its struct device, and the PCI accessors work on the      *)
(* driver_data of the embedded device.                                     *)
(***************************************************************************)
\* The operations of the external interface, by group, each with the wrapper that
\* would carry it and the configuration it is offered under.
InterfaceTable ==
    ([group : {"Block I/O"}, when : {""},
      op : {"req_bvec", "blk_mq_rq_to_pdu", "blk_mq_rq_from_pdu",
            "bio_advance_iter_single", "req_ref_inc_not_zero", "req_ref_put_and_test",
            "blk_mq_free_request_internal", "blk_mq_tag_to_rq",
            "blk_rq_payload_bytes", "blk_rq_nr_phys_segments"}])
    \cup [group : {"Diagnostics"}, when : {""}, op : {"BUG", "kunit_get_current_test"}]
    \cup [group : {"Error encoding"}, when : {""}, op : {"ERR_PTR", "IS_ERR", "PTR_ERR"}]
    \cup [group : {"String lookup"}, when : {""}, op : {"errname"}]
    \cup [group : {"CPU topology"}, when : {""}, op : {"num_possible_cpus"}]
    \cup [group : {"Timing"}, when : {""}, op : {"mdelay"}]
    \cup [group : {"Device model"}, when : {""},
          op : {"dev_get_drvdata", "dev_set_drvdata", "dev_name"}]
    \cup [group : {"Memory pages / folios"}, when : {""},
          op : {"folio_get", "folio_put", "folio_page", "folio_pos", "folio_size",
                "folio_mark_uptodate", "folio_set_error", "flush_dcache_folio",
                "kmap_local_folio", "kmap", "kunmap"}]
    \cup [group : {"Memory pages / folios"}, when : {"!NUMA"}, op : {"folio_alloc"}]
    \cup [group : {"MMIO"}, when : {""},
          op : {"readb", "readw", "readl", "writeb", "writew", "writel",
                "readb_relaxed", "readw_relaxed", "readl_relaxed",
                "writeb_relaxed", "writew_relaxed", "writel_relaxed", "memcpy_fromio"}]
    \cup [group : {"MMIO"}, when : {"64BIT"},
          op : {"readq", "writeq", "readq_relaxed", "writeq_relaxed"}]
    \cup [group : {"Locking"}, when : {""},
          op : {"__spin_lock_init", "spin_lock", "spin_unlock", "mutex_lock"}]
    \cup [group : {"PCI"}, when : {""},
          op : {"pci_get_drvdata", "pci_set_drvdata", "pci_resource_start"}]
    \cup [group : {"RCU"}, when : {""}, op : {"rcu_read_lock", "rcu_read_unlock"}]
    \cup [group : {"Reference counting"}, when : {""},
          op : {"REFCOUNT_INIT", "refcount_inc", "refcount_dec_and_test"}]
    \cup [group : {"Signals"}, when : {""}, op : {"signal_pending"}]
    \cup [group : {"Task/process"}, when : {""},
          op : {"get_current", "get_task_struct", "put_task_struct"}]
    \cup [group : {"Wait queues"}, when : {""}, op : {"init_wait"}]
    \cup [group : {"Work items"}, when : {""}, op : {"init_work_with_key"}]

PciDevs == {FromInt(4096, 32), FromInt(8192, 32)}

\* &pdev->dev, the struct device embedded in the PCI device at pdev.
DevOf(pdev) == [pdev EXCEPT ![1] = @ + 256]

Devices == {DevOf(p) : p \in PciDevs} \cup {FromInt(12288, 32)}

DrvData == {Zero, FromInt(500, 32), FromInt(600, 32)}

\* The driver data dd after delivered operation e, and the value e returns.
DrvPrimitive(e, dd) ==
    CASE e.prim = "dev_get_drvdata" -> [dd |-> dd, rv |-> dd[e.args[1].v]]
      [] e.prim = "dev_set_drvdata" ->
           [dd |-> [dd EXCEPT ![e.args[1].v] = e.args[2].v], rv |-> Zero]
      [] e.prim = "pci_get_drvdata" -> [dd |-> dd, rv |-> dd[DevOf(e.args[1].v)]]
      [] e.prim = "pci_set_drvdata" ->
           [dd |-> [dd EXCEPT ![DevOf(e.args[1].v)] = e.args[2].v], rv |-> Zero]

InitDrv ==
    /\ cfg \in Configs
    /\ drvdata = [d \in Devices |-> Zero]
    /\ dd_stored = [d \in Devices |-> [by |-> "", v |-> Zero]]
    /\ dd_last = [w |-> "", dev |-> Zero, ret |-> Zero]
    /\ BuildIdle /\ EquivIdle /\ ErrIdle /\ RefIdle /\ WorkIdle /\ LockIdle

\* rust_helper_pci_set_drvdata(pdev, data)
Call_pci_set_drvdata ==
    \E pdev \in PciDevs, data \in DrvData :
        LET body == rust_helper_pci_set_drvdata(pdev, data)
            r == DrvPrimitive(Deliver(cfg, body[1]), drvdata)
        IN  /\ drvdata' = r.dd
            /\ dd_stored' = [dd_stored EXCEPT ![DevOf(pdev)] = [by |-> "shim", v |-> data]]
            /\ dd_last' = [w |-> "pci_set_drvdata", dev |-> DevOf(pdev), ret |-> Zero]
            /\ UNCHANGED <<cfg, bvars, qvars, evars, rvars, wvars, lvars>>

\* rust_helper_pci_get_drvdata(pdev)
Call_pci_get_drvdata ==
    \E pdev \in PciDevs :
        LET body == rust_helper_pci_get_drvdata(pdev)
            r == DrvPrimitive(Deliver(cfg, body[1]), drvdata)
        IN  /\ drvdata' = r.dd
            /\ dd_last' = [w |-> "pci_get_drvdata", dev |-> DevOf(pdev),
                           ret |-> Returned(body[1], r.rv, cfg)]
            /\ UNCHANGED <<cfg, dd_stored, bvars, qvars, evars, rvars, wvars, lvars>>

\* rust_helper_dev_get_drvdata(dev)
Call_dev_get_drvdata ==
    \E dev \in Devices :
        LET body == rust_helper_dev_get_drvdata(dev)
            r == DrvPrimitive(Deliver(cfg, body[1]), drvdata)
        IN  /\ drvdata' = r.dd
            /\ dd_last' = [w |-> "dev_get_drvdata", dev |-> dev,
                           ret |-> Returned(body[1], r.rv, cfg)]
            /\ UNCHANGED <<cfg, dd_stored, bvars, qvars, evars, rvars, wvars, lvars>>

\* dev_set_drvdata(dev, data) called by kernel code; no wrapper carries it.
Kernel_dev_set_drvdata ==
    \E dev \in Devices, data \in DrvData :
        LET r == DrvPrimitive(Deliver(cfg, Call("dev_set_drvdata",
                     <<Arg("struct device *", dev), Arg("void *", data)>>, "void")),
                     drvdata)
        IN  /\ drvdata' = r.dd
            /\ dd_stored' = [dd_stored EXCEPT ![dev] = [by |-> "kernel", v |-> data]]
            /\ dd_last' = [w |-> "", dev |-> dev, ret |-> Zero]
            /\ UNCHANGED <<cfg, bvars, qvars, evars, rvars, wvars, lvars>>

NextDrv ==
    \/ Call_pci_set_drvdata
    \/ Call_pci_get_drvdata
    \/ Call_dev_get_drvdata
    \/ Kernel_dev_set_drvdata

SpecDrv == InitDrv /\ [][NextDrv]_vars

\* A get returns the value last stored for its device.
GetReturnsStored ==
    (dd_last.w \in {"pci_get_drvdata", "dev_get_drvdata"} /\ dd_stored[dd_last.dev].by # "")
        => dd_last.ret = dd_stored[dd_last.dev].v

====
